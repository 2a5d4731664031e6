---------------------------- MODULE WriterSession ----------------------------
(* The editing session of the writer (SelectionToolHandler): a voice that   *)
(* is edited through commands, the history of those edits, the layout cache *)
(* that follows them measure by measure, the layout last handed to the      *)
(* surface, and the step-entry cursor.  One handler runs at a time, from    *)
(* its guards to its return: it asks a factory for a command, declares the  *)
(* measures to lay out again, executes, refreshes the layout, and commits   *)
(* the edit or takes it back.                                               *)
EXTENDS NotationCommands, LayoutCache

CONSTANTS
  Nowhere,       \* what an edit declares whose measures cannot be told
  Start,         \* the voice the session opens
  MiddleLine,    \* the letter of the clef's middle line
  Selected,      \* bound: the noteheads and events that are selected for an edit,
                 \* but to delete or to convert, where it can be any of them
  Letters,       \* bound: what the other arguments of the edits range over
  Lengths,
  Moves,
  Accidentals,
  Intervals,
  Articulations,
  Stems,
  Levels,
  Directions,
  Spans,
  Ratios,
  Transpositions,
  Clicks,
  FirstCarets,
  MaxEdits,      \* bound: committed edits
  PoisonBelow    \* bound: the depth below which a rollback may fail

VARIABLES
  content,     \* the voice
  undoStack,   \* history_: what each edit found and what it left
  redoStack,
  poisoned,    \* history_.poisoned()
  cache,       \* layout_cache_
  shown,       \* layout_
  cursor,      \* step_entry_cursor_, None outside the note-entry tool
  reference,   \* previous_pitch_ and previous_pitch_undo_depth_, None for none
  edits,       \* committed edits
  missed,      \* history: an edit since the cache was built touched more than it declared
  behind,      \* history: the same of the layout shown, or it was left behind
  unrestored   \* history: an undo or redo that could not be shown could not be taken back

session == <<undoStack, redoStack, poisoned>>
layout  == <<cache, shown, missed, behind>>
entry   == <<cursor, reference>>
vars == <<content, session, layout, entry, edits, unrestored>>

Fresh == 1 + Max(UNION {IdsOf(c.events) \union RefIds(c.refs) :
                          c \in {content} \union {e.after : e \in Range(undoStack \o redoStack)}})

Init ==
  /\ content = Start
  /\ undoStack = <<>> /\ redoStack = <<>> /\ poisoned = FALSE
  /\ cache = FullReset(Start)
  /\ shown = cache.fragments
  /\ cursor = None /\ reference = None
  /\ edits = 0
  /\ missed = FALSE /\ behind = FALSE /\ unrestored = FALSE

-----------------------------------------------------------------------------
(* The measures an edit declares *)

OnsetOf(c, id) ==
  LET grace == {r \in Range(c.refs["graces"]) : \E n \in Range(r.value) : n.id = id}
      holders == {i \in DOMAIN c.events : id \in IdsOf(<<c.events[i]>>)}
  IN  IF grace # {} THEN Onsets(c.events)[Place(c, (CHOOSE r \in grace : TRUE).anchors[1])]
      ELSE Onsets(c.events)[Min(holders)]

Around(measures) == IF Nowhere \in measures THEN Nowhere ELSE <<Min(measures), Max(measures)>>
MeasureOrNowhere(onset) == IF onset < Boundary THEN MeasureAt(onset) ELSE Nowhere
\* measure_index_at(), for an event of the main region; there is none in the tail.
OwnMeasure(c, id) == LET m == MeasureOrNowhere(OnsetOf(c, id)) IN IF m = Nowhere THEN m ELSE <<m, m>>

\* notehead_move_scope(): the measures of the tie chain.
NoteheadScope(c, id) == Around({MeasureOrNowhere(OnsetOf(c, n)) : n \in MovesWith(c, id)})
\* convert_to_rest_invalidation(): those of every chain of the event.
ConvertScope(c, i) ==
  Around(UNION {{MeasureOrNowhere(OnsetOf(c, m)) : m \in TieChain(c, n.id)} : n \in Range(c.events[i].notes)})

\* marking_edit_invalidation(): the tail counts as the last measure, and an
\* exclusive end at a barline as the measure before it.
MarkedMeasure(onset) == IF onset < Boundary THEN MeasureAt(onset) ELSE Count
EndMeasure(onset) ==
  LET m == MarkedMeasure(onset)
  IN  IF onset < Boundary /\ m > 1 /\ MeasureStart[m] = onset THEN m - 1 ELSE m
MarkingScope(c, ids) == Around({MarkedMeasure(OnsetOf(c, id)) : id \in ids})
RangeScope(c, first, n) ==
  IF ~IsRun(c, first, n) THEN Nowhere
  ELSE Around({MarkedMeasure(Onsets(c.events)[first]), EndMeasure(Onsets(c.events)[first + n])})
TieScope(c, id) ==
  LET i == NoteIndex(c, id)
  IN  MarkingScope(c, {c.events[k].id : k \in {i, i + 1} \intersect DOMAIN c.events})

\* step_entry_invalidation()
EntryScope(c, position) ==
  IF c.events = <<>> THEN <<1, Count>>
  ELSE LET m == MeasureOrNowhere(position) IN IF m = Nowhere THEN m ELSE <<m, m>>

-----------------------------------------------------------------------------
(* The edits each handler offers: what its command leaves, and the measures *)
(* declared (None: all of them).  A handler that cannot tell the measures   *)
(* refuses before it executes, one that asks afterwards has to take it back. *)

Offer(r, range) == IF r.ok /\ range # Nowhere THEN {[to |-> r.content, range |-> range]} ELSE {}
OfferLate(r, range) == IF r.ok THEN {[to |-> r.content, range |-> range]} ELSE {}

Heads == NoteheadIds(content) \union GraceIds(content)
Sounding == {i \in DOMAIN content.events : ~IsRest(content.events[i])}
Chosen   == {i \in Sounding : content.events[i].id \in Selected}

DeleteSelectedNotehead ==
  UNION {Offer(DeleteNotehead(content, id, Fresh), NoteheadScope(content, id)) : id \in Heads}
ConvertSelectionToRest ==
  UNION {Offer(ConvertEventToRest(content, i, Fresh), ConvertScope(content, i)) : i \in Sounding}
MoveSelectedNotehead ==
  UNION {LET r == MoveNotehead(content, id, by) IN OfferLate(r, NoteheadScope(r.content, id))
         : <<id, by>> \in (Heads \intersect Selected) \X Moves}
StepSelectedAccidental ==
  UNION {LET r == StepAccidental(content, id, by) IN OfferLate(r, NoteheadScope(r.content, id))
         : <<id, by>> \in (Heads \intersect Selected) \X Accidentals}
AddSelectedInterval(id, interval, sign) ==
  Offer(AddInterval(content, id, interval, sign, Fresh), OwnMeasure(content, id))
TransposeSelection ==
  UNION {Offer(Transpose(content, t.from, t.to, t.chromatic, t.by), None) : t \in Transpositions}

EditSelectedArticulation ==
  UNION {LET id == content.events[i].id
         IN  UNION {Offer(ArticulationEdit(content, id, a, old, Fresh), OwnMeasure(content, id))
                    : old \in Range(content.events[i].style.articulations) \union {None}}
             \union Offer(ArticulationRemoval(content, id, a, Fresh), OwnMeasure(content, id))
         : <<i, a>> \in Chosen \X Articulations}
SetSelectedStem ==
  UNION {LET id == content.events[i].id
         IN  Offer(StemEdit(content, id, stem, Fresh), OwnMeasure(content, id))
         : <<i, stem>> \in Chosen \X Stems}

MarkingAnchors(f, id) == Range(content.refs[f][RefIndex(content, f, id)].anchors)
OfMarking(f, id, r) == Offer(r, MarkingScope(content, MarkingAnchors(f, id)))
IdsIn(f) == {r.id : r \in Range(content.refs[f])}
EditSelectedDynamic ==
  UNION {Offer(DynamicEdit(content, content.events[i].id, level, Fresh),
               MarkingScope(content, {content.events[i].id})) : <<i, level>> \in Chosen \X Levels}
  \union UNION {OfMarking("dynamics", id, Changed(content, "dynamics", id, level))
                : <<id, level>> \in IdsIn("dynamics") \X Levels}
  \union UNION {OfMarking("dynamics", id, RemoveDynamic(content, id)) : id \in IdsIn("dynamics")}
EditSelectedHairpin ==
  UNION {Offer(HairpinEdit(content, s[1], s[2], direction, Fresh), RangeScope(content, s[1], s[2]))
         : <<s, direction>> \in Spans \X Directions}
  \union UNION {OfMarking("hairpins", id, Changed(content, "hairpins", id, direction))
                : <<id, direction>> \in IdsIn("hairpins") \X Directions}
  \union UNION {OfMarking("hairpins", id, RemoveHairpin(content, id)) : id \in IdsIn("hairpins")}
EditSelectedSlur ==
  UNION {Offer(SlurEdit(content, s[1], s[2], Fresh), RangeScope(content, s[1], s[2])) : s \in Spans}
  \union UNION {OfMarking("slurs", id, RemoveSlur(content, id)) : id \in IdsIn("slurs")}
EditSelectedTie ==
  UNION {Offer(TieEdit(content, id, tied, Fresh), TieScope(content, id))
         : <<id, tied>> \in NoteheadIds(content) \X BOOLEAN}
EditSelectedBeamOverride ==
  UNION {Offer(BeamOverrideEdit(content, s[1], s[2], kind, Fresh), RangeScope(content, s[1], s[2]))
         : <<s, kind>> \in Spans \X {"join", "break", None}}

ApplyTupletRatio ==
  UNION {Offer(TupletCreateEdit(content, s[1], s[2], ratio, Fresh), None) : <<s, ratio>> \in Spans \X Ratios}
  \union UNION {Offer(ChangeGroup(content, e.tuplet.group, ratio, Fresh), None)
                : <<e, ratio>> \in {e \in Range(content.events) : e.tuplet # None} \X Ratios}
RemoveSelectedTuplet ==
  UNION {Offer(ChangeGroup(content, e.tuplet.group, None, Fresh), None)
         : e \in {e \in Range(content.events) : e.tuplet # None}}

EnterNote(position, pitch, length) ==
  IF position \notin 0..NodeEnd - 1 THEN {}
  ELSE Offer(NoteEntry(content, position, pitch, length, Fresh), EntryScope(content, position))

\* The edits that leave the pitch reference and the cursor alone.
PlainEdits ==
  DeleteSelectedNotehead \union ConvertSelectionToRest \union MoveSelectedNotehead
  \union StepSelectedAccidental \union TransposeSelection
  \union EditSelectedArticulation \union SetSelectedStem
  \union EditSelectedDynamic \union EditSelectedHairpin \union EditSelectedSlur
  \union EditSelectedTie \union EditSelectedBeamOverride
  \union ApplyTupletRatio \union RemoveSelectedTuplet
IntervalsOffered ==
  {<<id, interval, sign>> \in (NoteheadIds(content) \intersect Selected) \X Intervals \X {-1, 1} :
     AddSelectedInterval(id, interval, sign) # {}}

-----------------------------------------------------------------------------
(* Where the cursor may stand, and what a letter means there *)

\* snap_caret(): the nearest onset, or the end; the earlier of two.
Snapped(c, position) ==
  LET carets == {0} \union Range(Onsets(c.events))
      nearest == Min({Distance(p, position) : p \in carets})
  IN  Min({p \in carets : Distance(p, position) = nearest})

\* resolve_pitch_for_letter(): the octave nearest to the previous pitch.
PitchFor(letter) ==
  LET from == IF reference = None THEN MiddleLine ELSE reference.step
      near == {s \in (from - 7)..(from + 7) : s % 7 = letter}
      best == CHOOSE s \in near : \A o \in near :
                Distance(s, from) < Distance(o, from) \/ (Distance(s, from) = Distance(o, from) /\ s <= o)
  IN  [step |-> best, alter |-> 0]

-----------------------------------------------------------------------------
(* Refreshing the layout *)

DrawnMeasures(c) ==
  LET ix == BuildIndex(c, Known) IN [m \in Buckets |-> MeasureDrawing(ix, c.events, m)]
\* The measures whose drawing an edit changes; the tail goes with the last.
Touched(c, d) ==
  LET old == DrawnMeasures(c)
      new == DrawnMeasures(d)
  IN  {Min({m, Count}) : m \in {k \in Buckets : old[k] # new[k]}}
Covers(range, c, d) == Touched(c, d) \subseteq range[1]..range[2]

\* refresh_layout(), when the layout could be made and published.
Shows(c, range) ==
  /\ cache' = Updated(cache, c, range)
  /\ shown' = cache'.fragments
  /\ missed' = /\ range # None /\ cache.ready
                /\ (missed \/ ~Covers(range, content, c))
  /\ behind' = missed'

\* layout_cache_.reset() and warm_layout_cache(), which may fail in turn.
Rewarmed(c) ==
  /\ cache' \in {FullReset(c), NotReady}
  /\ missed' = FALSE
  /\ UNCHANGED shown

-----------------------------------------------------------------------------
(* Edits *)

MayEdit == ~poisoned /\ edits < MaxEdits

Commit(e) ==
  /\ e.range # Nowhere
  /\ content' = e.to
  /\ undoStack' = Append(undoStack, [before |-> content, after |-> e.to])
  /\ redoStack' = <<>>
  /\ Shows(e.to, e.range)
  /\ edits' = edits + 1
  /\ UNCHANGED <<poisoned, unrestored>>

\* record_step_entry_previous_pitch(), after the commit.
Records(pitch) ==
  reference' = [step |-> pitch.step, depth |-> Len(undoStack'), by |-> undoStack'[Len(undoStack')]]

Edit == MayEdit /\ (\E e \in PlainEdits : Commit(e)) /\ UNCHANGED entry

\* run_interval_action()
IntervalAction ==
  /\ MayEdit
  /\ \E <<id, interval, sign>> \in IntervalsOffered :
       /\ \E e \in AddSelectedInterval(id, interval, sign) : Commit(e)
       /\ IF cursor = None THEN UNCHANGED reference
          ELSE Records(AtInterval(PitchOf(content, id), interval, sign))
  /\ UNCHANGED cursor

\* step_entry_commit_pitch(), step_entry_commit_rest(): the cursor moves on.
StepEntry ==
  /\ MayEdit /\ cursor # None
  /\ \E length \in Lengths, letter \in Letters \union {None} :
       LET pitch == IF letter = None THEN None ELSE PitchFor(letter)
       IN  /\ pitch \in Pitches \union {None}
           /\ \E e \in EnterNote(cursor, pitch, length) : Commit(e)
           /\ IF pitch = None THEN UNCHANGED reference ELSE Records(pitch)
           /\ cursor' = Snapped(content', Min({cursor + length, TotalLength(content'.events)}))

\* pointer_note_entry(): the cursor goes where the click was.
PointerNoteEntry ==
  /\ MayEdit /\ cursor # None
  /\ \E <<position, step>> \in Clicks, length \in Lengths :
       LET pitch == [step |-> step, alter |-> 0]
       IN  /\ \E e \in EnterNote(position, pitch, length) : Commit(e)
           /\ Records(pitch)
           /\ cursor' = position

\* The layout cannot be made or published: the command is taken back,
\* whichever it was (as long as something sounds there is one to delete).
EditIsTakenBack ==
  /\ MayEdit /\ Heads # {}
  /\ Rewarmed(content)
  /\ UNCHANGED <<content, session, behind, entry, edits, unrestored>>

\* The rollback fails as well, and so does recover(): nothing more can be edited.
EditPoisonsHistory ==
  /\ MayEdit /\ Len(undoStack) < PoisonBelow
  /\ \E e \in PlainEdits : content' = e.to
  /\ poisoned' = TRUE
  /\ UNCHANGED <<undoStack, redoStack, layout, entry, edits, unrestored>>

-----------------------------------------------------------------------------
(* Undo and redo *)

Undone == /\ content' = undoStack[Len(undoStack)].before
          /\ undoStack' = Front(undoStack)
          /\ redoStack' = Append(redoStack, undoStack[Len(undoStack)])
Redone == /\ content' = redoStack[Len(redoStack)].after
          /\ redoStack' = Front(redoStack)
          /\ undoStack' = Append(undoStack, redoStack[Len(redoStack)])

CanUndo == ~poisoned /\ undoStack # <<>>
CanRedo == ~poisoned /\ redoStack # <<>>

\* The reference goes with the edit it came from (reset_pitch_reference()).
(* Mutant of ReferenceSurvives: it is one edit late to be forgotten.        *)
ReferenceSurvives_OneLate ==
  cursor = None \/ reference = None \/ Len(undoStack') + 1 >= reference.depth
ReferenceSurvives == cursor = None \/ reference = None \/ Len(undoStack') >= reference.depth
UndoAction ==
  /\ CanUndo /\ Undone
  /\ Shows(content', None)
  /\ reference' = IF ReferenceSurvives THEN reference ELSE None
  /\ UNCHANGED <<poisoned, cursor, edits, unrestored>>
RedoAction ==
  /\ CanRedo /\ Redone
  /\ Shows(content', None)
  /\ UNCHANGED <<poisoned, entry, edits, unrestored>>

\* rollback_last_undo(), rollback_last_redo(): the move is taken back.
\* Bound, here and below: as long as edits are left, for they show its effect.
MoveIsTakenBack ==
  /\ edits < MaxEdits
  /\ CanUndo \/ CanRedo
  /\ Rewarmed(content)
  /\ UNCHANGED <<content, session, behind, entry, edits, unrestored>>
\* That fails too: the voice has moved, the layout shown has not.
MoveStays ==
  /\ edits < MaxEdits
  /\ (CanUndo /\ Undone) \/ (CanRedo /\ Redone)
  /\ Rewarmed(content')
  /\ behind' = TRUE /\ unrestored' = TRUE
  /\ UNCHANGED <<poisoned, entry, edits>>

-----------------------------------------------------------------------------
(* The note-entry tool *)

\* initialize_step_entry_cursor(): at what is selected, or at the beginning.
\* Bound: as long as edits are left, for it only matters to them.
ToggleTool ==
  /\ edits < MaxEdits
  /\ cursor' \in IF cursor = None THEN {Snapped(content, p) : p \in FirstCarets} ELSE {None}
  /\ reference' = None
  /\ UNCHANGED <<content, session, layout, edits, unrestored>>

Next == \/ Edit \/ IntervalAction \/ StepEntry \/ PointerNoteEntry
        \/ EditIsTakenBack \/ EditPoisonsHistory
        \/ UndoAction \/ RedoAction \/ MoveIsTakenBack \/ MoveStays
        \/ ToggleTool

Spec == Init /\ [][Next]_vars

-----------------------------------------------------------------------------
(* Properties *)

Same(a, b) == /\ Comparable(a.index) = Comparable(b.index)
              /\ a.widths = b.widths /\ a.fragments = b.fragments

\* unless an edit touched measures it did not declare
CacheFollowsVoice ==
  ~poisoned /\ ~missed /\ cache.ready => Same(cache, FullReset(content))

\* and unless an undo that could not be shown could not be taken back either
ShownFollowsVoice ==
  ~poisoned /\ ~behind => shown = FullReset(content).fragments

(* A cache that is ready is the cache a full reset would build: a handler   *)
(* that fails after update() has changed the index and the widths leaves    *)
(* nothing of it to the next edit (notation_cache.cpp, and the reset and    *)
(* the warm-up of every failure path).  And the layout shown is that of the *)
(* voice, after edits, failed edits, undo and redo in any order, whichever  *)
(* systems were kept.                                                       *)
LayoutFollowsVoice == CacheFollowsVoice /\ ShownFollowsVoice

(* notation_layout.hpp: the range of an edit must include every measure     *)
(* touched by the old and new form of the span.  The layout shown is then   *)
(* that of the voice after every edit that succeeds.                        *)
EditsAreShown ==
  ~poisoned /\ ~unrestored => shown = FullReset(content).fragments

(* The pitch the next letter is resolved against was entered by an edit     *)
(* that is still in the voice, at the depth that was recorded: undoing that *)
(* edit forgets the pitch, undoing a later one does not (undo_action()) -   *)
(* unless an undo could not be taken back.                                  *)
ReferenceHasItsEdit ==
  reference # None /\ ~unrestored =>
    /\ reference.depth \in DOMAIN undoStack
    /\ undoStack[reference.depth] = reference.by

(* After any edits every notehead can be deleted, its event converted to a  *)
(* rest, and its chain moved as far as there are pitches: whatever else     *)
(* refers to it - ties, slurs, beams, grace groups, tuplets - the commands  *)
(* repair enough for the voice they leave to be valid, and what the writer  *)
(* selects next, told from the voice before, is in it.  It is asked of each *)
(* voice once, where the tool is off and nothing is undone.                 *)
NoteheadsCanBeEdited ==
  ~poisoned /\ cursor = None /\ redoStack = <<>> =>
    /\ \A id \in Heads :
         LET r == DeleteNotehead(content, id, Fresh)
         IN  r.ok /\ IsSelectable(r.content, SelectionAfterDelete(content, id))
    /\ \A i \in Sounding :
         LET r == ConvertEventToRest(content, i, Fresh)
         IN  r.ok /\ IsSelectable(r.content, SelectionAfterConvert(content, i))
    /\ \A id \in Heads, by \in Moves :
         MoveNotehead(content, id, by).ok
           <=> \A m \in MovesWith(content, id) : Diatonic(PitchOf(content, m), by) \in Pitches
=============================================================================
