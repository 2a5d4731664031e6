----------------------------- MODULE LayoutCache -----------------------------
(* NotationLayoutCache (notation_cache.cpp) and the part of layout_internal *)
(* (notation_layout.cpp) that decides which systems are drawn again: the    *)
(* cache keeps an index of the voice, the width of every measure and the    *)
(* fragment drawn of every system, and update() redraws the systems that    *)
(* the invalidated measures meet, or that no longer have the same bounds.   *)
(*                                                                          *)
(* What a fragment shows is abstracted to what it was drawn from: the       *)
(* records of the index, the events they led to, the ties out of them, and  *)
(* the references with where their anchors were found.                      *)
EXTENDS VoiceIndex

CONSTANTS
  SystemWidth,    \* content_width: what the measures of a system share
  MinimumWidth    \* of a measure, whatever it holds

ASSUME LayoutConstants == SystemWidth \in Nat /\ MinimumWidth \in Nat

-----------------------------------------------------------------------------
(* Widths and systems *)

\* event_spacing(): a rest is a glyph, a sounding event a head and its pitches.
Spacing(look) == IF IsRest(look) THEN 1 ELSE 2 + Len(look.notes)
Crowding(bucket) == Total([k \in DOMAIN bucket |-> Spacing(bucket[k].look)])

\* compute_measure_width()
MeasureWidth(ix, m) == Max({MinimumWidth, 1 + Crowding(ix.buckets[m])})
MeasureWidths(ix) == [m \in Measures |-> MeasureWidth(ix, m)]

\* system_ranges(): a system takes measures while they fit, the first always.
SystemStarts(widths) ==
  LET used[m \in Measures] ==
        IF m = 1 THEN widths[1]
        ELSE IF used[m - 1] + widths[m] > SystemWidth THEN widths[m]
        ELSE used[m - 1] + widths[m]
  IN  {m \in Measures : m = 1 \/ used[m - 1] + widths[m] > SystemWidth}
SystemEnd(widths, first) ==
  Min({Count} \union {m - 1 : m \in {k \in SystemStarts(widths) : k > first}})
Ordinal(widths, first) == Cardinality({m \in SystemStarts(widths) : m <= first})

\* The final system is longer by the pickdown, which grows with its content.
PickdownWidth(ix, widths) ==
  IF Pickdown = 0 THEN 0 ELSE widths[Count] + Crowding(ix.buckets[Count + 1])
Bounds(ix, widths, first) ==
  LET last == SystemEnd(widths, first)
      used == Total([k \in 1..last - first + 1 |-> widths[first + k - 1]])
  IN  [ordinal |-> Ordinal(widths, first),
       width |-> Max({SystemWidth, used})
                   + (IF last = Count THEN PickdownWidth(ix, widths) ELSE 0)]

-----------------------------------------------------------------------------
(* Drawing *)

\* An event is read at the index its record gives; past the end is undefined.
EventAt(events, i) == IF i \in DOMAIN events THEN events[i] ELSE None
TiesOut(events, i) ==
  IF i \notin DOMAIN events \/ i + 1 \notin DOMAIN events THEN {}
  ELSE {h \in Range(events[i].notes) : h.tied /\ \E o \in Range(events[i + 1].notes) : o.pitch = h.pitch}
DrawnEvent(events, r) ==
  [onset |-> r.onset, event |-> EventAt(events, r.index), ties |-> TiesOut(events, r.index)]

\* A tie is drawn again where it ends: the last event before the measure.
TiesIn(ix, events, m) ==
  IF m = 1 \/ ix.buckets[m - 1] = <<>> THEN {}
  ELSE TiesOut(events, ix.buckets[m - 1][Len(ix.buckets[m - 1])].index)

\* span_x(): what begins before a measure, or ends after it, is cut at its edge.
EdgeOf(m) == IF m = Count + 1 THEN NodeEnd ELSE MeasureStart[m + 1]
Cut(onset, m) == Max({MeasureStart[m], Min({onset, EdgeOf(m)})})

\* What a reference takes from an anchor: a beam its height and flags, a slur
\* or a grace group whether it sounds, every one its place.
DrawnAnchor(ix, events, f, id, m) ==
  LET at == ix.byId[id]
      e == EventAt(events, at.index)
      traits == CASE e = None \/ f \in {"dynamics", "hairpins"} -> None
                  [] e # None /\ f = "beams" -> e
                  [] e # None /\ f \in {"slurs", "graces"} -> IsRest(e)
  IN  IF id \notin DOMAIN ix.byId THEN None ELSE <<Cut(at.onset, m), traits>>
DrawnRefs(ix, events, f, m) ==
  {LET r == ix.family[f].entries[id].record
   IN  [id |-> id, value |-> r.value,
        at |-> [k \in DOMAIN r.anchors |-> DrawnAnchor(ix, events, f, r.anchors[k], m)]]
   : id \in ix.family[f].byMeasure[m]}

\* add_rhythm() and add_pickdown_content(), for one measure or the tail.
MeasureDrawing(ix, events, m) ==
  [events |-> [k \in DOMAIN ix.buckets[m] |-> DrawnEvent(events, ix.buckets[m][k])],
   into |-> TiesIn(ix, events, m),
   refs |-> [f \in Families |-> DrawnRefs(ix, events, f, m)]]
Drawing(ix, events, widths, first, last) ==
  [widths |-> [m \in first..last |-> widths[m]],
   measures |-> [m \in first..(IF last = Count THEN Count + 1 ELSE last) |-> MeasureDrawing(ix, events, m)]]

Fragment(ix, events, widths, first) ==
  LET last == SystemEnd(widths, first)
  IN  [first |-> first, last |-> last, bounds |-> Bounds(ix, widths, first),
       drawing |-> Drawing(ix, events, widths, first, last)]

\* layout_internal() with nothing to reuse: the fragments of the whole node.
LayoutOf(ix, events, widths) ==
  {Fragment(ix, events, widths, first) : first \in SystemStarts(widths)}

\* With fragments to reuse: those of valid systems that kept their bounds.
(* Mutant of Reusable: a fragment is kept wherever its system begins.       *)
Reusable_AnyBounds(previous, ix, widths, first) ==
  {f \in previous : f.first = first}
Reusable(previous, ix, widths, first) ==
  {f \in Reusable_AnyBounds(previous, ix, widths, first) :
     /\ f.last = SystemEnd(widths, first)
     /\ f.bounds = Bounds(ix, widths, first)}
Relaid(previous, invalid, ix, events, widths) ==
  UNION {LET kept == IF first \in invalid THEN {} ELSE Reusable(previous, ix, widths, first)
         IN  IF kept # {} THEN kept ELSE {Fragment(ix, events, widths, first)}
         : first \in SystemStarts(widths)}

-----------------------------------------------------------------------------
(* update() *)

\* reset(): whatever it still holds, the next update() starts from nothing.
NotReady == [ready |-> FALSE]

\* Every command assigns the voice as a whole, so that no token of the index
\* is ever that of the voice.
Known == NewJournal(0, 1)
Foreign == NewJournal(1, 1)

FullReset(c) ==
  LET With(ix, widths) == [ready |-> TRUE, index |-> ix, widths |-> widths,
                           fragments |-> LayoutOf(ix, c.events, widths)]
      Measured(ix) == With(ix, MeasureWidths(ix))
  IN  Measured(BuildIndex(c, Known))

\* The measure after the range is measured again too.
RefreshedWidths(ix, widths, first, last) ==
  [m \in Measures |-> IF m \in first..Min({last + 1, Count}) THEN MeasureWidth(ix, m) ELSE widths[m]]

InvalidSystems(widths, first, last) ==
  {s \in SystemStarts(widths) : s <= last /\ SystemEnd(widths, s) >= first}

LocalUpdate(cache, c, first, last) ==
  LET With(ix, widths) ==
        [ready |-> TRUE, index |-> ix, widths |-> widths,
         fragments |-> Relaid(cache.fragments, InvalidSystems(widths, first, last), ix, c.events, widths)]
      Measured(ix) == With(ix, RefreshedWidths(ix, cache.widths, first, last))
  IN  Measured([RefreshRange(cache.index, c, Foreign, first, last) EXCEPT !.token = TokenOf(Known)])

\* `range' is <<first, last>>, or None for a full reset.
Updated(cache, c, range) ==
  IF range = None \/ ~cache.ready THEN FullReset(c) ELSE LocalUpdate(cache, c, range[1], range[2])
=============================================================================
