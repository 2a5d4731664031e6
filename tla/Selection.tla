------------------------------- MODULE Selection -------------------------------
(* What can be selected in a node (selection.cpp, notation_selection.cpp),   *)
(* and where a selection leads: the caret of step entry, the anchor of a     *)
(* paste, the neighbouring staff, what an edit of the measures leaves.       *)
(*                                                                           *)
(* A selection has an arm: "measures", [staves, from, count], whole measures *)
(* of whole staves; "range", [voices, start, end], each voice <<stave,       *)
(* voice>>; "notehead", "chord" and "rest", [stave, voice, id]; a marking is  *)
(* "marking", [kind, stave, voice, id], an "articulation", with its value,   *)
(* or a "pedal", [stave, span]; and "caret", [stave, voice, at].  The items  *)
(* of the first two stand in score order.                                    *)
EXTENDS NodeTimeline, VoiceClipping

CONSTANTS
  Active,    \* the active tracks, in order
  Archived,  \* the archived ones
  Layout,    \* the staves of each track, top to bottom
  Voices     \* bound: the voices of a stave

ASSUME SelectionConstants ==
  /\ IsInjective(Active) /\ Range(Active) \intersect Archived = {}
  /\ DOMAIN Layout = Range(Active) \union Archived
  /\ \A t, u \in DOMAIN Layout : t # u => Range(Layout[t]) \intersect Range(Layout[u]) = {}
  /\ Voices \subseteq Nat

Tracks == DOMAIN Layout
TrackOf(s) == CHOOSE t \in Tracks : s \in Range(Layout[t])
ActiveStave(s) == \E t \in Range(Active) : s \in Range(Layout[t])
VoiceAt(n, s, v) == n.lanes[TrackOf(s)][s].voices[v]

\* score_ordered_staves()
ScoreOrder == FlattenSeq([k \in DOMAIN Active |-> Layout[Active[k]]])
FirstStave(staves) == ScoreOrder[Min({k \in DOMAIN ScoreOrder : ScoreOrder[k] \in staves})]

\* validate_track_scope_chain(), live_stave()
Live(n, s) == ActiveStave(s) /\ s \in DOMAIN n.lanes[TrackOf(s)]
Shown(n) == SelectSeq(ScoreOrder, LAMBDA s : Live(n, s))

\* TrackLane::total_length()
LaneEnd(n, s) ==
  LET lane == n.lanes[TrackOf(s)]
  IN  Max({0} \union {TotalLength(lane[x].voices[v].events) : x \in DOMAIN lane, v \in Voices})

-----------------------------------------------------------------------------
(* What is selected *)

Measures(staves, from, count) == [arm |-> "measures", staves |-> staves, from |-> from, count |-> count]
Item(arm, s, v, id) == [arm |-> arm, stave |-> s, voice |-> v, id |-> id]
Marking(kind, s, v, id) == [arm |-> "marking", kind |-> kind, stave |-> s, voice |-> v, id |-> id]
OfMarking(sel) == sel.arm \in {"marking", "articulation", "pedal"}
Caret(s, v, p) == [arm |-> "caret", stave |-> s, voice |-> v, at |-> p]

OfMeasures(sel) == sel.arm = "measures"
OfRange(sel) == sel.arm = "range"
SelectedVoices(sel) == IF OfMeasures(sel) THEN sel.staves \X Voices ELSE sel.voices
SelectedStaves(sel) == {x[1] : x \in SelectedVoices(sel)}
RangeStart(n, sel) == IF OfMeasures(sel) THEN Starts(n)[sel.from] ELSE sel.start
RangeEnd(n, sel)   == IF OfMeasures(sel) THEN Starts(n)[sel.from + sel.count] ELSE sel.end
FirstVoice(sel) ==
  LET s == FirstStave(SelectedStaves(sel)) IN <<s, Min({x[2] : x \in {y \in sel.voices : y[1] = s}})>>

\* classify_entity(); the id of a Note is its notehead's.
Among(notes, id) == \E h \in Range(notes) : h.id = id
EntityKind(c, id) ==
  LET i == Place(c, id)
      notes == Len(c.events[i].notes)
  IN  CASE i # 0 -> IF notes = 0 THEN "rest" ELSE IF notes = 1 THEN "note" ELSE "chord"
        [] i = 0 /\ (\E e \in Range(c.events) : Among(e.notes, id)) -> "chord note"
        [] i = 0 /\ (\E r \in Range(c.refs["graces"]) : Among(r.value, id)) -> "grace note"
        [] OTHER -> None

\* tie_origin_state()
TiedOn(c, id) == \E e \in Range(c.events) : \E h \in Range(e.notes) : h.id = id /\ h.tied

GroupOf(c, i) == IF c.events[i].tuplet = None THEN None ELSE c.events[i].tuplet.group
\* normalize_tuplet_anchor(): the first event of the run that event i is in.
TupletStart(c, i) ==
  Min({j \in 1..i : \A k \in j..i : GroupOf(c, k) = GroupOf(c, i)})

\* validate_voice_marking(), validate_pedal_span_marking(): the markings by
\* what they hang on.
VoiceMarkingHolds(c, m) ==
  CASE m.kind = "tie" -> TiedOn(c, m.id)
    [] m.kind = "tuplet" -> LET i == Place(c, m.id)
                            IN  IF i = 0 THEN FALSE ELSE GroupOf(c, i) # None /\ TupletStart(c, i) = i
    [] OTHER -> RefIndex(c, m.kind, m.id) # 0
ArticulationHolds(c, m) == Plays(c, m.id) /\ m.value \in Range(EventOf(c, m.id).style.articulations)
MarkingHolds(n, m) ==
  CASE m.arm = "marking" -> VoiceMarkingHolds(VoiceAt(n, m.stave, m.voice), m)
    [] m.arm = "articulation" -> ArticulationHolds(VoiceAt(n, m.stave, m.voice), m)
    [] m.arm = "pedal" -> m.span \in Range(n.lanes[TrackOf(m.stave)][m.stave].pedals)

\* validate_insertion_caret_set(): the end of the voice itself is no boundary.
LegalCarets(n, s, v) ==
  LET events == VoiceAt(n, s, v).events
  IN  {0, LaneEnd(n, s)} \union {Onsets(events)[i] : i \in DOMAIN events}

\* validate_full_measure_set(), after the staves.
MeasuresHold(n, sel) == sel.from + sel.count - 1 <= Count(n)

\* validate_notehead_set() .. validate_rest_set()
EntityHolds(n, sel) ==
  LET kind == EntityKind(VoiceAt(n, sel.stave, sel.voice), sel.id)
  IN  CASE sel.arm = "notehead" -> kind \in {"note", "chord note", "grace note"}
        [] OTHER -> kind = sel.arm

\* validate_selection()
StavesOf(sel) == IF OfMeasures(sel) \/ OfRange(sel) THEN SelectedStaves(sel) ELSE {sel.stave}
Validates(n, sel) ==
  /\ \A s \in StavesOf(sel) : Live(n, s)
  /\ CASE OfMeasures(sel) -> MeasuresHold(n, sel)
       [] OfRange(sel) -> TRUE
       [] sel.arm = "caret" -> sel.at \in LegalCarets(n, sel.stave, sel.voice)
       [] OfMarking(sel) -> MarkingHolds(n, sel)
       [] OTHER -> EntityHolds(n, sel)

-----------------------------------------------------------------------------
(* What a click can select *)

\* decompose_measure_aligned_rests(): each measure, then the pickdown.
MeasureRests(n) ==
  LET lengths == [i \in 1..Count(n) |-> MeasureLength(n, i)]
                   \o (IF n.pickdown = 0 THEN <<>> ELSE <<n.pickdown>>)
  IN  IF \E d \in Range(lengths) : ~Decomposable(d) THEN {}
      ELSE {FlattenSeq([i \in DOMAIN lengths |-> FreshRests(lengths[i], i * Step)])}

\* resolve_insertion_site(): the onsets in the measures drawn, of the rests
\* that would fill a voice that is empty.
InsertionSites(n, s, v) ==
  LET events == VoiceAt(n, s, v).events
      drawn == IF events = <<>> THEN MeasureRests(n) ELSE {events}
  IN  {p \in UNION {{Onsets(all)[i] : i \in DOMAIN all} : all \in drawn} : p < Boundary(n)}
\* resolve_selection_at(), away from any entity: in the armed voice.
CaretClicks(n, s, armed) ==
  {Caret(s, armed, p) : p \in InsertionSites(n, s, armed) \intersect LegalCarets(n, s, armed)}

\* resolve_selection_at(), on a notehead or what belongs to an event.
EntityClicks(n, s, v) ==
  LET c == VoiceAt(n, s, v)
      ids == IdsOf(c.events) \union UNION {{h.id : h \in Range(r.value)} : r \in Range(c.refs["graces"])}
      Arm(id) == IF EntityKind(c, id) \in {"chord", "rest"} THEN EntityKind(c, id) ELSE "notehead"
  IN  {Item(Arm(id), s, v, id) : id \in ids}

\* resolve_marking_record(): a marking that has an id of its own.
RecordClicks(n, s, v) ==
  LET c == VoiceAt(n, s, v)
  IN  UNION {{Marking(f, s, v, r.id) : r \in Range(c.refs[f])} : f \in {"dynamics", "hairpins", "slurs"}}
        \union {[arm |-> "pedal", stave |-> s, span |-> span] : span \in Range(n.lanes[TrackOf(s)][s].pedals)}

\* resolve_marking_selection(), for one that hangs on an event: the digit of
\* a tuplet may be drawn at any event of the run.
AttachedClicks(n, s, v) ==
  LET c == VoiceAt(n, s, v)
      noteheads == UNION {Range(e.notes) : e \in Range(c.events)}
      Marks(e) == IF IsRest(e) THEN {} ELSE Range(e.style.articulations)
  IN  {Marking("tie", s, v, h.id) : h \in {x \in noteheads : x.tied}}
        \union {Marking("tuplet", s, v, c.events[TupletStart(c, i)].id) :
                  i \in {j \in DOMAIN c.events : GroupOf(c, j) # None}}
        \union UNION {{[arm |-> "articulation", stave |-> s, voice |-> v, id |-> e.id, value |-> a] : a \in Marks(e)} :
                        e \in Range(c.events)}

\* resolve_measure_selection_at()
MeasureClicks(n, s) == {Measures({s}, i, 1) : i \in 1..Count(n)}

\* What a click selects, whichever voice is armed.
Clicks(n) ==
  UNION {MeasureClicks(n, s)
           \union UNION {CaretClicks(n, s, v) \union EntityClicks(n, s, v) \union RecordClicks(n, s, v)
                           \union AttachedClicks(n, s, v) : v \in Voices} :
           s \in Range(Shown(n))}

-----------------------------------------------------------------------------
(* Where a selection is *)

\* position_of_event(): a grace note is where its principal is.
OnsetsOf(c, id) ==
  LET Sounds(x) == {i \in DOMAIN c.events : c.events[i].id = x \/ Among(c.events[i].notes, x)}
      principals == {r.anchors[1] : r \in {g \in Range(c.refs["graces"]) : Among(g.value, id)}}
      places == IF Sounds(id) # {} THEN Sounds(id) ELSE UNION {Sounds(x) : x \in principals}
  IN  {Onsets(c.events)[i] : i \in places}

OfEntity(sel) == sel.arm \in {"notehead", "chord", "rest"}
\* event_onset()
EventOnset(n, sel) == IF Live(n, sel.stave) THEN OnsetsOf(VoiceAt(n, sel.stave, sel.voice), sel.id) ELSE {}

Gap(p, q) == IF p < q THEN q - p ELSE p - q
\* The one nearest to p, the earlier of two.
Nearest(positions, p) ==
  CHOOSE q \in positions : \A r \in positions : Gap(p, q) < Gap(p, r) \/ (Gap(p, q) = Gap(p, r) /\ q <= r)
\* snap_caret()
SnapCaret(n, s, v, p) == Caret(s, v, Nearest(LegalCarets(n, s, v), p))

\* initialize_step_entry_cursor(): from the selection, else where the first
\* staff begins; measures that are gone give none.
CursorBefore(n, sel, armed) ==
  LET anywhere == IF Shown(n) = <<>> THEN {} ELSE {Caret(Shown(n)[1], armed, 0)}
      placed == {Caret(sel.stave, sel.voice, p) : p \in EventOnset(n, sel)}
  IN  CASE sel.arm = "caret" -> {sel}
        [] OfRange(sel) -> {Caret(FirstVoice(sel)[1], FirstVoice(sel)[2], sel.start)}
        [] OfMeasures(sel) -> IF Validates(n, sel) THEN {Caret(FirstStave(sel.staves), armed, Starts(n)[sel.from])}
                              ELSE {}
        [] OfEntity(sel) -> IF placed = {} THEN anywhere ELSE placed
        [] OfMarking(sel) -> anywhere
StepEntryCursor(n, sel, armed) ==
  {SnapCaret(n, x.stave, x.voice, x.at) : x \in {y \in CursorBefore(n, sel, armed) : Live(n, y.stave)}}

\* derive_paste_anchor(): whole measures go to as many staves as there are.
PasteAnchor(n, sel) ==
  LET At(s, p) == [stave |-> s, at |-> p, scopes |-> <<>>]
      first == FirstStave(SelectedStaves(sel))
      gone == \E s \in StavesOf(sel) : ~Live(n, s)
  IN  CASE gone \/ OfMarking(sel) -> {}
        [] ~gone /\ sel.arm = "caret" -> {At(sel.stave, sel.at)}
        [] ~gone /\ OfEntity(sel) -> {At(sel.stave, p) : p \in EventOnset(n, sel)}
        [] ~gone /\ OfRange(sel) -> {At(first, sel.start)}
        [] ~gone /\ OfMeasures(sel) ->
             IF Validates(n, sel) THEN {[At(first, Starts(n)[sel.from]) EXCEPT
                                           !.scopes = SelectSeq(ScoreOrder, LAMBDA s : s \in sel.staves)]}
             ELSE {}

-----------------------------------------------------------------------------
(* The neighbouring staff *)

\* build_tie_chain(), of every notehead of event i.
TiedWith(c, i) ==
  {j \in DOMAIN c.events : \E h \in Range(c.events[i].notes) :
     \A k \in Min({i, j})..Max({i, j}) - 1 :
       /\ \E x \in Range(c.events[k].notes) : x.tied /\ x.pitch = h.pitch
       /\ SoundsPitch(c.events[k + 1], h.pitch)}

\* staff_step_source(): one entity or a caret, that is still there.
StepSource(n, sel) ==
  CASE ~Validates(n, sel) \/ ~(OfEntity(sel) \/ sel.arm = "caret") -> {}
    [] Validates(n, sel) /\ OfEntity(sel) -> EventOnset(n, sel)
    [] Validates(n, sel) /\ sel.arm = "caret" -> {sel.at}
\* staff_step_source_x(): what has a notehead of its own on the page.
HasNotehead(n, sel) ==
  OfEntity(sel) /\ EntityKind(VoiceAt(n, sel.stave, sel.voice), sel.id) \in {"note", "chord", "chord note"}

\* The event that a step from p in a voice lands on: the nearest, or one it is
\* tied with that may be drawn nearer.
Landings(c, p, drawn) ==
  LET onset == Onsets(c.events)
      sounding == {i \in DOMAIN c.events : ~IsRest(c.events[i])}
      nearest == CHOOSE i \in sounding : onset[i] = Nearest({onset[j] : j \in sounding}, p)
  IN  IF sounding = {} THEN {} ELSE IF drawn THEN TiedWith(c, nearest) ELSE {nearest}

\* selection_after_staff_step(): the same voice of the next staff shown, round
\* the end; without a note there, a caret.  By is 1 for the next, -1 for the one before.
StaffStep(n, sel, by) ==
  LET shown == Shown(n)
      here == CHOOSE k \in DOMAIN shown : shown[k] = sel.stave
      s == shown[((here + by - 1) % Len(shown)) + 1]
      c == VoiceAt(n, s, sel.voice)
      Landed(i) == Item(IF Len(c.events[i].notes) = 1 THEN "notehead" ELSE "chord", s, sel.voice, c.events[i].id)
      To(p) == LET landings == Landings(c, p, HasNotehead(n, sel))
               IN  CASE c.events = <<>> -> {Caret(s, sel.voice, 0)}
                     [] c.events # <<>> /\ landings = {} -> {SnapCaret(n, s, sel.voice, p)}
                     [] OTHER -> {Landed(i) : i \in landings}
  IN  IF Len(shown) < 2 \/ StepSource(n, sel) = {} THEN {}
      ELSE {r \in UNION {To(p) : p \in StepSource(n, sel)} : Validates(n, r)}

-----------------------------------------------------------------------------
(* Editing the measures selected *)

\* resolve_aligned_full_measure_set()
Aligned(n, sel) == OfMeasures(sel) /\ sel.count = 1 /\ Validates(n, sel)
\* remap_full_measure_selection()
MovedTo(sel, i) == [sel EXCEPT !.from = i]

\* make_insert_measure_command(), selection_after_insert_measure()
InsertedAt(n, sel, append) == IF append THEN Count(n) + 1 ELSE sel.from
AfterInsertMeasure(n, sel, append) ==
  MovedTo(sel, IF append THEN Count(n) + 1 ELSE sel.from + 1)
(* Mutant of AfterDeleteMeasure: the place of the last measure is kept.      *)
AfterDeleteMeasure_Unclamped(n, sel) == sel
\* selection_after_delete_measure()
AfterDeleteMeasure(n, sel) == MovedTo(sel, Min({sel.from, Count(n) - 1}))

\* cut_selection(): in the first voice of the range, or the armed one.
AfterCut(n, sel, armed) ==
  IF OfRange(sel) THEN Caret(FirstVoice(sel)[1], FirstVoice(sel)[2], sel.start)
  ELSE Caret(FirstStave(sel.staves), armed, Starts(n)[sel.from])
=============================================================================
