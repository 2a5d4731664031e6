----------------------------- MODULE ScoreEditing -----------------------------
(* The commands on one node that reach beyond a single voice - measures,     *)
(* pickdown, clefs, tempo, pedals, voice streams, cut and paste - and the    *)
(* linear history they are undone and redone in.                             *)
(*                                                                           *)
(* An entry of the history has the node before and after, of which a command *)
(* captures only its scope: the whole node or its pickdown, its tempo, some  *)
(* staves' clefs, some tracks' lanes, one voice.  Undo and redo require the  *)
(* scope to be as the command left it and put the other snapshot back.       *)
EXTENDS Clipboard

CONSTANTS
  Start,       \* the node at the beginning
  NewMeters,   \* bound: signatures of a new measure, or given to one
  Pickdowns,   \* bound: the durations of SetPickdown
  Positions,   \* bound: where clefs and tempo points are put
  Clefs, Values, PedalSpans,  \* bounds: what is added
  Selections,  \* bound: what is copied and cut
  Destinations,  \* bound: the selections it is pasted at
  MaxEdits     \* bound: commands in the history

(* What a node is: the lanes of every track, the archived ones too, each    *)
(* with some of the staves of its layout, and in a stave every voice.       *)
IsStave(x) == /\ x = [voices |-> x.voices, pedals |-> x.pedals]
              /\ x.voices = [v \in Voices |-> x.voices[v]]
IsLane(lane, t) == /\ lane = [s \in DOMAIN lane |-> lane[s]]
                   /\ DOMAIN lane \subseteq Range(Layout[t])
                   /\ \A s \in DOMAIN lane : IsStave(lane[s])
IsNode(n) ==
  /\ n = [measures |-> n.measures, pickdown |-> n.pickdown, tempo |-> n.tempo,
          clefs |-> n.clefs, lanes |-> n.lanes]
  /\ n.clefs = [s \in DOMAIN n.clefs |-> n.clefs[s]]
  /\ n.lanes = [t \in Tracks |-> n.lanes[t]]
  /\ \A t \in Tracks : IsLane(n.lanes[t], t)

ASSUME StartIsNode == IsNode(Start)

VARIABLES node, clipboard, done, undone
vars == <<node, clipboard, done, undone>>

Init == node = Start /\ clipboard = None /\ done = <<>> /\ undone = <<>>

-----------------------------------------------------------------------------
(* Scopes *)

Nothing == [kind |-> "node", tracks |-> {}, staves |-> {}, voices |-> {}]
OfNode      == Nothing
OfPickdown  == [Nothing EXCEPT !.kind = "pickdown"]
OfTempo     == [Nothing EXCEPT !.kind = "tempo"]
OfClefs(s)  == [Nothing EXCEPT !.kind = "clefs", !.staves = {s}]
OfPedals(s) == [Nothing EXCEPT !.kind = "pedals", !.tracks = {TrackOf(s)}, !.voices = {<<s, 1>>}]
OfVoice(s, v) == [Nothing EXCEPT !.kind = "voice", !.voices = {<<s, v>>}]
(* Mutant of OfLanes: the clefs are not captured.                            *)
OfLanes_WithoutClefs(staves, clefs) ==
  [Nothing EXCEPT !.kind = "lanes", !.tracks = {TrackOf(s) : s \in staves}]
\* The lanes of a cut; those of a paste, and the clefs that it changes.
OfLanes(staves, clefs) ==
  [Nothing EXCEPT !.kind = "lanes", !.tracks = {TrackOf(s) : s \in staves}, !.staves = clefs]

\* The clef lane of a stave: a set, empty when it has none.
ClefsOf(n, s) == {n.clefs[x] : x \in {s} \intersect DOMAIN n.clefs}

\* snapshot_matches() and its like: the scope of m is as in n.
Agree(scope, n, m) ==
  CASE scope.kind = "node"     -> m = n
    [] scope.kind = "pickdown" -> m.pickdown = n.pickdown /\ m.tempo = n.tempo
    [] scope.kind = "tempo"    -> m.tempo = n.tempo
    [] scope.kind = "voice"    -> \A x \in scope.voices : VoiceAt(m, x[1], x[2]) = VoiceAt(n, x[1], x[2])
    [] OTHER -> /\ \A t \in scope.tracks : m.lanes[t] = n.lanes[t]
                /\ \A s \in scope.staves : ClefsOf(m, s) = ClefsOf(n, s)

\* n with the lanes and the clefs of the scope as in m.
WithScope(scope, n, m) ==
  [n EXCEPT !.lanes = [t \in DOMAIN @ |-> IF t \in scope.tracks THEN m.lanes[t] ELSE @[t]],
            !.clefs = [s \in (DOMAIN m.clefs \intersect scope.staves) \union (DOMAIN @ \ scope.staves) |->
                        IF s \in scope.staves THEN m.clefs[s] ELSE @[s]]]

\* What is put back is checked against the node as it is now.
Restored(scope, n, from, to, redoing) ==
  LET voice == CHOOSE x \in scope.voices : TRUE
      t == TrackOf(voice[1])
      Put == WithScope(scope, n, to)
      VoicePut == [n EXCEPT !.lanes[t][voice[1]].voices[voice[2]] = VoiceAt(to, voice[1], voice[2])]
  IN  IF ~Agree(scope, from, n) THEN {}
      ELSE CASE scope.kind = "node" -> {to}
             [] scope.kind = "pickdown" -> ApplyPickdown(n, to.pickdown)
             [] scope.kind = "tempo" -> IF DOMAIN to.tempo = {} THEN {[n EXCEPT !.tempo = to.tempo]}
                                        ELSE SetTempo(n, to.tempo)
             [] scope.kind = "voice" ->
                  {m \in {VoicePut} :
                     redoing => TotalLength(VoiceAt(to, voice[1], voice[2]).events) = NodeEnd(n)}
             [] scope.kind = "pedals" ->
                  {m \in {Put} : StaveHolds(to.lanes[t][voice[1]], NodeEnd(n))}
             [] scope.kind = "lanes" ->
                  {m \in {Put} : \A x \in scope.tracks : LaneHolds(to.lanes[x], NodeEnd(n))}
             [] OTHER -> {Put}

-----------------------------------------------------------------------------
(* The commands.  `about' says what was done, for the properties.            *)

\* Bounds: with something on the clipboard the last command is a paste; and
\* what has been undone is redone or left undone (see CommandHistory).
Open(op) ==
  /\ Len(done) < IF clipboard = None \/ op = "paste" THEN MaxEdits ELSE MaxEdits - 1
  /\ undone = <<>>
Execute(after, scope, about) ==
  /\ node' = after
  /\ done' = Append(done, [scope |-> scope, about |-> about, before |-> node, after |-> after])
  /\ UNCHANGED undone
Simple == [op |-> "other"]

\* transform_project_lanes(): every track, archived ones too, gets the staves
\* of its layout.
TransformStave(stave, edit) ==
  [voices |-> [v \in Voices |-> The(RebuildAround(stave.voices[v], edit))],
   pedals |-> CarriedPedals(stave.pedals, edit)]
TransformProjectLanes(n, edit) ==
  LET lanes == [t \in Tracks |-> Ensured(n.lanes, Range(Layout[t]))[t]]
      Result == [n EXCEPT !.lanes = [t \in Tracks |-> [s \in DOMAIN lanes[t] |->
                                       TransformStave(lanes[t][s], edit)]]]
  IN  IF \E t \in Tracks : \E s \in DOMAIN lanes[t] : \E v \in Voices :
           RebuildAround(lanes[t][s].voices[v], edit) = {}
      THEN {}
      ELSE {m \in {Result} : \A t \in Tracks : LaneHolds(m.lanes[t], edit.newEnd)}

EditMeasures(timeline, edit, kind, i) ==
  /\ Open("measures")
  /\ \E n \in timeline : \E after \in TransformProjectLanes(n, edit) :
       Execute(after, OfNode, [op |-> "measures", edit |-> edit, kind |-> kind, index |-> i])
  /\ UNCHANGED clipboard

EditTimeline(outcome, scope) ==
  /\ Open("other")
  /\ \E after \in outcome : Execute(after, scope, Simple)
  /\ UNCHANGED clipboard

InsertMeasureCommand(i, meter) ==
  EditMeasures(InsertMeasure(node, i, meter), InsertMeasureEdit(node, i, meter), "insert", i)
DeleteMeasureCommand(i) == EditMeasures(RemoveMeasure(node, i), RemoveMeasureEdit(node, i), "delete", i)
SetMeasureTimeSignatureCommand(i, meter) ==
  IF MeterLength[meter] # MeasureLength(node, i)
  THEN EditMeasures(SetMeasureTimeSignature(node, i, meter), TimeSignatureEdit(node, i, meter), "resize", i)
  ELSE EditTimeline(SetMeasureTimeSignature(node, i, meter), OfNode)

SetPickdownCommand(d) == EditTimeline(SetPickdown(node, d), OfPickdown)
ClearPickdownCommand == EditTimeline(ClearPickdown(node), OfPickdown)
AddTempoPointCommand(p, value)  == EditTimeline(AddTempoPoint(node, p, value), OfTempo)
RemoveTempoPointCommand(p)      == EditTimeline(RemoveTempoPoint(node, p), OfTempo)
MoveTempoPointCommand(p, q)     == EditTimeline(MoveTempoPoint(node, p, q), OfTempo)
SetTempoPointCommand(p, value)  == EditTimeline(SetTempoPoint(node, p, value), OfTempo)
AddClefChangeCommand(s, p, clef) == EditTimeline(AddClefChange(node, s, p, clef), OfClefs(s))
RemoveClefChangeCommand(s, p)    == EditTimeline(RemoveClefChange(node, s, p), OfClefs(s))
MoveClefChangeCommand(s, p, q)   == EditTimeline(MoveClefChange(node, s, p, q), OfClefs(s))

WithPedals(s, spans) == [node EXCEPT !.lanes[TrackOf(s)][s].pedals = spans]
PedalCommand(s, spans) ==
  /\ Open("other")
  /\ \E after \in {n \in {WithPedals(s, spans)} : StaveHolds(n.lanes[TrackOf(s)][s], NodeEnd(n))} :
       Execute(after, OfPedals(s), Simple)
  /\ UNCHANGED clipboard
HasStave(s) == s \in DOMAIN node.lanes[TrackOf(s)]
AddPedalSpan(s, span) ==
  HasStave(s) /\ PedalCommand(s, Append(node.lanes[TrackOf(s)][s].pedals, span))
RemovePedalSpan(s, k) ==
  /\ HasStave(s) /\ k \in DOMAIN node.lanes[TrackOf(s)][s].pedals
  /\ PedalCommand(s, RemoveAt(node.lanes[TrackOf(s)][s].pedals, k))

CreateVoiceStream(s, v) ==
  /\ Open("other") /\ HasStave(s) /\ VoiceAt(node, s, v).events = <<>>
  /\ \E rests \in MeasureRests(node) :
       Execute([node EXCEPT !.lanes[TrackOf(s)][s].voices[v] = [EmptyContent EXCEPT !.events = rests]],
               OfVoice(s, v), Simple)
  /\ UNCHANGED clipboard

-----------------------------------------------------------------------------
(* Clipboard *)

\* Bound: what is on the clipboard is not copied over, and can be pasted.
Copy(sel) ==
  /\ clipboard = None /\ Len(done) < MaxEdits /\ undone = <<>>
  /\ \E frag \in Extract(node, sel) : clipboard' = frag
  /\ UNCHANGED <<node, done, undone>>

CutFragment(sel) ==
  /\ Open("cut")
  /\ \E after \in Cut(node, sel) :
       Execute(after, OfLanes(SelectedStaves(sel), {}),
               [op |-> "cut", sel |-> sel, from |-> RangeStart(node, sel), to |-> RangeEnd(node, sel)])
  /\ clipboard' = The(Extract(node, sel))

\* paste_clipboard()
PasteFragment(sel) ==
  /\ Open("paste") /\ clipboard # None
  /\ \E anchor \in PasteAnchor(node, sel) : \E after \in Paste(node, clipboard, anchor) :
       LET map == The(Mapping(clipboard, anchor))
           changed == {s \in Range(map) : ClefsOf(after, s) # ClefsOf(node, s)}
       IN  Execute(after, OfLanes(Range(map), changed),
                   [op |-> "paste", frag |-> clipboard, map |-> map,
                    from |-> anchor.at, to |-> anchor.at + clipboard.length])
  /\ UNCHANGED clipboard

-----------------------------------------------------------------------------
(* The history *)

UndoOutcome(e) == Restored(e.scope, node, e.after, e.before, FALSE)
RedoOutcome(e) == Restored(e.scope, node, e.before, e.after, TRUE)

Undo ==
  /\ done # <<>>
  /\ \E before \in UndoOutcome(Last(done)) : node' = before
  /\ done' = Front(done)
  /\ undone' = Append(undone, Last(done))
  /\ UNCHANGED clipboard

Redo ==
  /\ undone # <<>>
  /\ \E after \in RedoOutcome(Last(undone)) : node' = after
  /\ undone' = Front(undone)
  /\ done' = Append(done, Last(undone))
  /\ UNCHANGED clipboard

Staves == UNION {Range(Layout[t]) : t \in Tracks}

Next ==
  \/ \E i \in 1..Count(node) + 1, m \in NewMeters : InsertMeasureCommand(i, m)
  \/ \E i \in 1..Count(node) : DeleteMeasureCommand(i)
  \/ \E i \in 1..Count(node), m \in NewMeters : SetMeasureTimeSignatureCommand(i, m)
  \/ \E d \in Pickdowns : SetPickdownCommand(d)
  \/ ClearPickdownCommand
  \/ \E p \in Positions, value \in Values : AddTempoPointCommand(p, value)
  \/ \E p \in Positions : RemoveTempoPointCommand(p)
  \/ \E p, q \in Positions : MoveTempoPointCommand(p, q)
  \/ \E p \in Positions, value \in Values : SetTempoPointCommand(p, value)
  \/ \E s \in Staves, p \in Positions, clef \in Clefs : AddClefChangeCommand(s, p, clef)
  \/ \E s \in Staves, p \in Positions : RemoveClefChangeCommand(s, p)
  \/ \E s \in Staves, p, q \in Positions : MoveClefChangeCommand(s, p, q)
  \/ \E s \in Staves, span \in PedalSpans : AddPedalSpan(s, span)
  \/ \E s \in Staves, k \in {1} : RemovePedalSpan(s, k)
  \/ \E s \in Staves, v \in Voices : CreateVoiceStream(s, v)
  \/ \E sel \in Selections : Copy(sel)
  \/ \E sel \in Selections : CutFragment(sel)
  \/ \E sel \in Destinations : PasteFragment(sel)
  \/ Undo
  \/ Redo

Spec == Init /\ [][Next]_vars

-----------------------------------------------------------------------------
(* What is heard *)

\* The pitches of a voice at each position, and those that begin there: not
\* those that the event before is tied into.
Heard(c, end) ==
  LET onset == Onsets(c.events)
      At(p) == First({i \in DOMAIN c.events : onset[i] <= p /\ p < onset[i + 1]})
      Chord(i) == IF i = 0 THEN {} ELSE {h.pitch : h \in Range(c.events[i].notes)}
      TiedInto(i) == IF i <= 1 THEN {} ELSE {h.pitch : h \in {x \in Range(c.events[i - 1].notes) : x.tied}}
      Sound(p, i) == [chord  |-> Chord(i),
                      struck |-> IF i = 0 THEN {} ELSE IF onset[i] = p THEN Chord(i) \ TiedInto(i) ELSE {}]
  IN  [p \in 0..end - 1 |-> Sound(p, At(p))]
Silent == [chord |-> {}, struck |-> {}]
\* What is left at q of a sound when all before q is gone.
Parted(sound) == [sound EXCEPT !.struck = sound.chord]

\* The events of c that keep their attack when [from, to) goes.
Attacks(c, from, to) ==
  LET onset == Onsets(c.events)
  IN  {c.events[i].id : i \in {j \in DOMAIN c.events :
         \/ onset[j + 1] <= from
         \/ onset[j] < from /\ ~IsRest(c.events[j])
         \/ onset[j] >= to}}
\* From `to' on, where what is before it has gone or moved: the rest of what
\* began before it is silent, and the next event is struck.
Kept(c, heard, to, q) ==
  LET cut == Straddler(c.events, to)
      seam == IF cut = 0 THEN to ELSE Onsets(c.events)[cut + 1]
  IN  CASE q < seam -> Silent
        [] q = seam -> Parted(heard[q])
        [] q > seam -> heard[q]

\* The markings but the beams are those whose events all keep their attacks.
MarkingsKept(c, d, from, to) ==
  LET kept == Attacks(c, from, to)
  IN  \A f \in Families \ {"beams"} :
        {r \in Range(d.refs[f]) : r.id \in RefIds(c.refs)}
          = {r \in Range(c.refs[f]) : Range(r.anchors) \subseteq kept}

Crossing(spans, p) == \E x \in Range(spans) : x.start < p /\ p < x.end
Holding(spans, p) == \E x \in Range(spans) : x.start <= p /\ p < x.end

JustDid(op) == undone = <<>> /\ done # <<>> /\ Last(done).about.op = op
Latest == Last(done)

\* Where position p, after an edit of the measures, was before; -1 for a new one.
Origin(edit, p) == CASE p < edit.start -> p
                     [] p >= edit.start + Max({edit.shift, 0}) -> p - edit.shift
                     [] OTHER -> -1

VoiceKeepsItsMusic(c, d, edit) ==
  LET old == Heard(c, edit.oldEnd)
      new == Heard(d, edit.newEnd)
      Expected(q) == CASE q = -1 -> Silent
                       [] q # -1 /\ q < edit.start -> old[q]
                       [] OTHER -> Kept(c, old, edit.removed, q)
  IN  /\ \A p \in DOMAIN new : new[p] = Expected(Origin(edit, p))
      /\ MarkingsKept(c, d, edit.start, edit.removed)
BeamsKeptTogether(c, d) ==
  \A i \in 1..Len(d.events) - 1 :
    LET pair == {d.events[i].id, d.events[i + 1].id}
        Joined(refs) == \E r \in Range(refs["beams"]) : pair \subseteq Range(r.anchors)
    IN  Beamable(d.events[i]) /\ Beamable(d.events[i + 1]) => Joined(c.refs) = Joined(d.refs)

LaneKeepsItsMusic(before, after, edit) ==
  \A s \in DOMAIN after :
    LET old == IF s \in DOMAIN before THEN before[s] ELSE EmptyStave(Voices)
    IN  /\ \A v \in Voices : /\ VoiceKeepsItsMusic(old.voices[v], after[s].voices[v], edit)
                             /\ BeamsKeptTogether(old.voices[v], after[s].voices[v])
        /\ \A p \in 0..edit.newEnd - 1 :
             Holding(after[s].pedals, p) = IF Origin(edit, p) = -1 THEN Crossing(old.pedals, edit.start)
                                           ELSE Holding(old.pedals, Origin(edit, p))

ClefsKept(n, m, s, edit) ==
  s \in DOMAIN n.clefs /\ DOMAIN n.clefs[s] \intersect edit.start..edit.removed - 1 = {} =>
    \A p \in 0..edit.newEnd - 1 :
      Origin(edit, p) # -1 => ClefAt(m, s, p) = ClefAt(n, s, Origin(edit, p))

(* Inserting, deleting or resizing a measure moves the music of every lane,  *)
(* the archived ones too, and changes nothing else of it: at every position  *)
(* the same is heard and struck as where it was before, but that what began  *)
(* in what is deleted is silent and what was tied over the seam is struck;   *)
(* a marking stays if and only if the events it names do, beams join the     *)
(* same events, the clef reads as before, and the pedal holds as before, in  *)
(* a new measure if and only if it is held over the seam                     *)
(* (measure_command_helpers.hpp).                                            *)
MeasuresKeepTheirMusic ==
  JustDid("measures") =>
    LET edit == Latest.about.edit
    IN  /\ \A t \in Tracks : LaneKeepsItsMusic(Latest.before.lanes[t], Latest.after.lanes[t], edit)
        /\ \A s \in Staves : ClefsKept(Latest.before, Latest.after, s, edit)

\* What is heard of d: c, with `inside' in [from, to).
RangeReplaced(c, d, inside, from, to, end) ==
  LET old == Heard(c, end)
      new == Heard(d, end)
      Expected(p) == CASE p < from -> old[p]
                       [] from <= p /\ p < to -> inside[p - from]
                       [] OTHER -> Kept(c, old, to, p)
  IN  /\ \A p \in DOMAIN new : new[p] = Expected(p)
      /\ MarkingsKept(c, d, from, to)
StaveReplaced(n, m, s, Named(_), Inside(_), pedals) ==
  LET old == IF s \in DOMAIN n.lanes[TrackOf(s)] THEN n.lanes[TrackOf(s)][s] ELSE EmptyStave(Voices)
      new == m.lanes[TrackOf(s)][s]
      from == Latest.about.from  to == Latest.about.to
  IN  /\ \A v \in Voices : IF Named(v) THEN RangeReplaced(old.voices[v], new.voices[v], Inside(v), from, to, NodeEnd(n))
                           ELSE new.voices[v] = old.voices[v]
      /\ \A p \in 0..NodeEnd(n) - 1 :
           Holding(new.pedals, p) = IF from <= p /\ p < to THEN Holding(pedals, p - from)
                                    ELSE Holding(old.pedals, p)
Untouched(n, m, staves) ==
  \A t \in Tracks : \A s \in DOMAIN m.lanes[t] \ staves : m.lanes[t][s] = n.lanes[t][s]

CutReplaces(e) ==
  LET voices == SelectedVoices(e.about.sel)
      Inside(v) == [p \in 0..e.about.to - e.about.from - 1 |-> Silent]
  IN  /\ \A s \in SelectedStaves(e.about.sel) :
           StaveReplaced(e.before, e.after, s, LAMBDA v : <<s, v>> \in voices, Inside, <<>>)
      /\ Untouched(e.before, e.after, SelectedStaves(e.about.sel))
      /\ e.after.clefs = e.before.clefs
PasteReplaces(e) ==
  LET frag == e.about.frag  map == e.about.map
      Inside(key, v) == Heard(frag.parts[<<key, v>>], frag.length)
  IN  /\ \A key \in DOMAIN map :
           StaveReplaced(e.before, e.after, map[key], LAMBDA v : <<key, v>> \in DOMAIN frag.parts,
                         LAMBDA v : Inside(key, v), frag.pedals[key])
      /\ Untouched(e.before, e.after, Range(map))
      /\ \A s \in Staves, p \in 0..NodeEnd(e.before) - 1 :
           p \notin e.about.from..e.about.to - 1 => ClefAt(e.after, s, p) = ClefAt(e.before, s, p)

(* A cut leaves silence, and a paste the fragment, in the range and in the   *)
(* voices that it names: outside the range all is heard as before, up to     *)
(* what began inside and what was tied into the seam; the markings whose     *)
(* events remain stay; the pedal holds outside as before and inside as in    *)
(* the fragment; the clefs outside read as before; no other voice changes    *)
(* (clipboard_command_helpers.hpp, paste_fragment_command.cpp).              *)
ExactlyTheRangeIsReplaced ==
  /\ JustDid("cut") => CutReplaces(Latest)
  /\ JustDid("paste") => PasteReplaces(Latest)

(* A fragment sounds as the selection did: what began before it is silent in *)
(* it, its first chord is struck, nothing is tied out of it, the pedal holds *)
(* where it did, and the clef changes are those inside (notation_fragment.cpp). *)
CopySounds(n, sel, frag) ==
  \A x \in SelectedVoices(sel) :
    LET from == RangeStart(n, sel)  to == RangeEnd(n, sel)
        voice == VoiceAt(n, x[1], x[2])
        heard == Heard(voice, NodeEnd(n))
    IN  \E k \in DOMAIN frag.parts :
          /\ k[1][2] = Ordinal(x[1]) /\ k[2] = x[2]
          /\ \A p \in 0..to - from - 1 :
               /\ Heard(frag.parts[k], to - from)[p] = Kept(voice, heard, from, p + from)
               /\ Holding(frag.pedals[k[1]], p) = Holding(n.lanes[TrackOf(x[1])][x[1]].pedals, p + from)
          /\ ReferencesHold(frag.parts[k])
CopyHearsItsRange ==
  [][\A sel \in Selections :
       clipboard' # clipboard /\ Copy(sel) => CopySounds(node, sel, clipboard')]_vars

\* What an edit of measure `index' makes of the selection it is asked for with.
MeasuresFollow(n, m, about) ==
  \A s \in Range(Shown(n)), append \in BOOLEAN :
    LET sel(i) == Measures({s}, i, 1)
        Left(i) == IF about.kind = "delete" THEN AfterDeleteMeasure(n, sel(i))
                   ELSE AfterInsertMeasure(n, sel(i), append)
        Asked(i) == /\ Aligned(n, sel(i))
                    /\ about.index = IF about.kind = "delete" THEN i ELSE InsertedAt(n, sel(i), append)
        Old(i) == CASE about.kind = "insert" /\ append -> -1
                    [] about.kind = "insert" /\ ~append -> Starts(n)[i]
                    [] about.kind = "delete" -> Starts(n)[IF i < Count(n) THEN i + 1 ELSE i - 1]
    IN  \A i \in {j \in 1..Count(n) : Asked(j)} :
          /\ Validates(m, Left(i))
          /\ Origin(about.edit, Starts(m)[Left(i).from]) = Old(i)

SelectionFollows ==
  /\ JustDid("measures") =>
       (Latest.about.kind # "resize" => MeasuresFollow(Latest.before, Latest.after, Latest.about))
  /\ JustDid("cut") =>
       \A armed \in Voices : Validates(node, AfterCut(Latest.before, Latest.about.sel, armed))

ClicksHold ==
  LET Reached(sel) == {by \in {-1, 1} : StaffStep(node, sel, by) # {}}
      clicks == Clicks(node)
      placed == {sel \in clicks : OfEntity(sel) \/ sel.arm = "caret"}
  IN  /\ \A sel \in clicks : Validates(node, sel)
      /\ \A sel \in placed :
           \E cursor \in StepEntryCursor(node, sel, sel.voice), anchor \in PasteAnchor(node, sel) :
             anchor.stave = cursor.stave /\ anchor.at = cursor.at
      /\ \A sel \in placed : Len(Shown(node)) > 1 => Reached(sel) = {-1, 1}
      /\ done # <<>> => \A sel \in Clicks(Latest.before) : Reached(sel) \in {{}, {-1, 1}}

(* What a click selects holds, whichever voice is armed: in an empty one a   *)
(* caret only where the rests yet to come are no matter, and the first event *)
(* of a tuplet whichever its digit is drawn at.  From a note, a rest or a    *)
(* caret step entry and a paste begin at the same place, and there is a step *)
(* to the next staff and to the one before; from what was selected before    *)
(* the last command there is a step to both or to neither ("eligibility is   *)
(* direction-independent", selection_tool_handler_palette.cpp:236).  And an  *)
(* edit leaves a selection that holds in the node it has made: an insertion  *)
(* the measure it was asked for at, or the one it has appended; a deletion   *)
(* the measure that followed, or the last; a cut a caret where the range     *)
(* began (notation_selection.cpp, notation_measure_edit.cpp,                 *)
(* notation_staff_step.cpp, selection_tool_handler_clipboard.cpp).           *)
SelectionsHold == ClicksHold /\ SelectionFollows

(* A command's scope is all that it changed: while nothing else has happened *)
(* its undo, when it is not refused, leaves the node as it found it, and     *)
(* redo as it left it; the history is never stale.                           *)
UndoRestores ==
  /\ done # <<>> => /\ Agree(Latest.scope, Latest.after, node)
                    /\ \A n \in UndoOutcome(Latest) : n = Latest.before
  /\ undone # <<>> => /\ Agree(Last(undone).scope, Last(undone).before, node)
                      /\ \A n \in RedoOutcome(Last(undone)) : n = Last(undone).after

(* A cut or a paste that has just been done can be undone: "a pre-snapshot   *)
(* captured exactly as the original lane state (without pre-normalization)   *)
(* restores correctly" (clipboard_command_helpers.hpp:955).                  *)
UndoIsPossible ==
  JustDid("cut") \/ JustDid("paste") => UndoOutcome(Latest) # {}
=============================================================================
