----------------------------- MODULE VoiceEditing -----------------------------
(* A voice edited through VoiceContent's mutators, and the index a layout   *)
(* cache keeps of it.  The caller is notation_cache.cpp with a caller of    *)
(* its own that obeys the header: update() gets the ranges of measures that *)
(* hold everything that changed since the last update.                      *)
EXTENDS VoiceIndex

CONSTANTS
  Start,       \* the voice to edit
  FirstId,     \* ids below it are taken
  Edits,       \* the mutators the instance exercises
  Pitches,
  Rooms,       \* how many deltas the ring holds
  Ratio,       \* the tuplet ratio set_tuplet_group() is called with
  MaxEdits,    \* bound: mutations between two updates, and overall
  MaxUpdates,  \* bound: updates
  MaxRanges    \* bound: invalidations given to one update

VARIABLES
  content,   \* the voice
  journal,   \* revision_, deltas_
  index,     \* IndexedVoice
  minted,    \* ids generated so far
  edits,     \* mutations so far
  updates,   \* updates so far
  dirty,     \* history: the measures touched since the last update
  original,  \* history: the content of the last update, for an undo
  entered    \* history: an event of the tail has come to begin in a measure

vars == <<content, journal, index, minted, edits, updates, dirty, original, entered>>

\* What the index holds of each measure, positions in the voice aside.
Seen(c) ==
  LET Look(r) == <<r.id, r.onset, r.look>>
      In(built) ==
        [m \in Buckets |->
          <<[k \in DOMAIN built.buckets[m] |-> Look(built.buckets[m][k])],
            [f \in Families |-> SelectSeq(c.refs[f], LAMBDA r : r.id \in built.family[f].byMeasure[m])]>>]
  IN  In(BuildIndex(c, NewJournal(0, 1)))
\* The tail belongs to the last measure: no range can name it alone.
Touched(c, d) ==
  LET Differing(old, new) == {Min({m, Count}) : m \in {k \in Buckets : old[k] # new[k]}}
  IN  Differing(Seen(c), Seen(d))

Begins(c, from, to) ==
  {c.events[i].id : i \in {k \in DOMAIN c.events :
                             Onsets(c.events)[k] >= from /\ Onsets(c.events)[k] < to}}
EntersMain(c, d) == Begins(c, Boundary, NodeEnd) \intersect Begins(d, 0, Boundary) # {}

Init ==
  /\ content = Start
  /\ \E room \in Rooms : journal = NewJournal(0, room)
  /\ index = BuildIndex(Start, journal)
  /\ minted = FirstId
  /\ edits = 0 /\ updates = 0
  /\ dirty = {}
  /\ original = Start
  /\ entered = FALSE

NewNote(p, length) ==
  [id |-> minted, notes |-> <<[id |-> minted, pitch |-> p]>>, base |-> length, tuplet |-> None]
Positions == 0..NodeEnd - 1

\* The mutator called with every argument that may matter; `to' is its outcome.
Mutate(kind, to) ==
  /\ kind \in Edits /\ edits < MaxEdits
  /\ to.ok
  /\ content' = to.content
  /\ journal' = IF to.delta = None THEN journal ELSE AdvanceRevision(journal, to.delta)
  /\ minted' = Max({minted} \union IdsOf(to.content.events) \union RefIds(to.content.refs)) + 1
  /\ edits' = edits + 1
  /\ dirty' = dirty \union Touched(content, to.content)
  /\ entered' = (entered \/ EntersMain(content, to.content))
  /\ UNCHANGED <<index, updates, original>>

InsertAny == \E t \in Positions, d \in PlainDurations, p \in Pitches :
            Mutate("insert", InsertEvent(content, t, NewNote(p, d), NodeEnd, minted))
AppendAny == \E d \in PlainDurations, p \in Pitches :
               /\ TotalLength(content.events) + d <= NodeEnd
               /\ Mutate("append", AppendEvent(content, NewNote(p, d), None))
RemoveAny == \E t \in Positions : Mutate("remove", RemoveEvent(content, t, NodeEnd, minted))
ReplaceAny ==
  \E i \in DOMAIN content.events, d \in PlainDurations, p \in Pitches, keep \in BOOLEAN :
    LET old == content.events[i]
        e == IF keep THEN [NewNote(p, d) EXCEPT !.id = old.id, !.notes[1].id = old.id]
             ELSE NewNote(p, d)
    IN  Mutate("replace",
               ReplaceEvent(content, Onsets(content.events)[i], e, NodeEnd, minted))
Group ==
  \E i \in DOMAIN content.events, n \in 1..2, on \in BOOLEAN :
    Mutate("tuplet",
           SetTupletGroup(content, i, n, IF on THEN Ratio ELSE None, NodeEnd, minted))
Repitch == \E id \in IdsOf(content.events) \union RefIds(content.refs), p \in Pitches :
             Mutate("repitch", SetNoteheadPitch(content, id, p))
Reset == Mutate("clear", Clear)
Fill  == Mutate("normalize", Normalize(content, NodeEnd, minted))

\* A span is asked for from a sounding event to a later one.
Anchors(f) ==
  LET events == content.events
      here == {i \in DOMAIN events : ~IsRest(events[i])}
  IN  IF f \in {"dynamics", "graces"} THEN {<<events[i].id>> : i \in here}
      ELSE {<<events[i].id, events[k].id>> : <<i, k>> \in {p \in here \X here : p[1] < p[2]}}
GraceNote(p) == <<[id |-> minted + 1, pitch |-> p]>>
NewRef(f, anchors, p) ==
  [id |-> minted, anchors |-> anchors, value |-> IF f = "graces" THEN GraceNote(p) ELSE p]
AddReference ==
  \E f \in Families : \E a \in Anchors(f), p \in Pitches :
    Mutate("add", AddRef(content, f, NewRef(f, a, p)))
RemoveReference ==
  \E f \in Families, id \in RefIds(content.refs) : Mutate("unref", RemoveRef(content, f, id))
ReplaceReference ==
  \E f \in {"dynamics", "hairpins", "beams"} : \E r \in Range(content.refs[f]) :
    \E a \in (IF f = "beams" THEN Anchors(f) ELSE {r.anchors}), p \in Pitches :
      Mutate("reref", ReplaceRef(content, f, [r EXCEPT !.anchors = a, !.value = p]))
RemoveGrace == \E id \in RefIds(content.refs) : Mutate("ungrace", RemoveGraceNote(content, id))

\* A command's undo assigns the saved content: a new lineage, an empty ring.
Assign ==
  /\ "assign" \in Edits /\ edits < MaxEdits
  /\ content # original
  /\ content' = original
  /\ journal' = NewJournal(journal.lineage + 1, journal.room)
  /\ edits' = edits + 1
  /\ dirty' = dirty \union Touched(content, original)
  /\ entered' = (entered \/ EntersMain(content, original))
  /\ UNCHANGED <<index, minted, updates, original>>

\* update() with ranges that together hold every touched measure.
Ranges == {<<first, last>> \in Measures \X Measures : first <= last}
Update ==
  /\ updates < MaxUpdates /\ edits > 0
  /\ \E n \in 1..MaxRanges : \E ranges \in [1..n -> Ranges] :
       /\ dirty \subseteq UNION {ranges[k][1]..ranges[k][2] : k \in 1..n}
       /\ index' = FoldLeft(LAMBDA ix, r : RefreshRange(ix, content, journal, r[1], r[2]),
                            index, ranges)
  /\ updates' = updates + 1
  /\ dirty' = {}
  /\ original' = content
  /\ UNCHANGED <<content, journal, minted, edits, entered>>

Next == \/ AppendAny \/ InsertAny \/ RemoveAny \/ ReplaceAny \/ Group \/ Repitch \/ Reset \/ Fill
        \/ AddReference \/ RemoveReference \/ ReplaceReference \/ RemoveGrace
        \/ Assign \/ Update

Spec == Init /\ [][Next]_vars

-----------------------------------------------------------------------------
(* Properties *)

(* An index refreshed over the declared ranges is the index that would be   *)
(* built from nothing: notation_index.cpp's refresh against its build.      *)
RefreshEqualsBuild ==
  [][updates' # updates => Comparable(index') = Comparable(BuildIndex(content, journal))]_vars

(* The same, as long as no event of the pickdown tail came to begin in the  *)
(* main region.                                                             *)
RefreshEqualsBuildOutsideTail ==
  [][updates' # updates /\ ~entered =>
       Comparable(index') = Comparable(BuildIndex(content, journal))]_vars

(* voice_content.hpp: every later sounding onset is preserved.  A mutator   *)
(* of a complete voice leaves it complete, with no id twice, and whatever   *)
(* still sounds under its id begins where it began; only a change of        *)
(* tuplets and the assignment of another voice may move it.                 *)
Complete(c) ==
  /\ TotalLength(c.events) = NodeEnd
  /\ Cardinality(IdsOf(c.events)) = FoldLeft(LAMBDA n, e : n + Max({1, Len(e.notes)}), 0, c.events)
Sounding(c) == {<<c.events[i].id, Onsets(c.events)[i]>> : i \in {k \in DOMAIN c.events : ~IsRest(c.events[k])}}
Regrouped(c, d) == \E e \in Range(c.events), g \in Range(d.events) :
                     e.id = g.id /\ e.notes = g.notes /\ e.tuplet # g.tuplet
EditsStayLocal ==
  [][Complete(content) =>
      /\ Complete(content') \/ content' = EmptyContent
      /\ (journal'.lineage = journal.lineage /\ ~Regrouped(content, content')) =>
           \A s \in Sounding(content), t \in Sounding(content') : s[1] = t[1] => s[2] = t[2]]_vars
=============================================================================
