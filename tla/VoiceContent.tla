----------------------------- MODULE VoiceContent -----------------------------
(* VoiceContent (voice_content.hpp/.cpp) as operators: the events of a      *)
(* voice, gapless and in order, and the five families of references that    *)
(* are anchored to events by id.  A mutator returns an outcome: whether it  *)
(* was accepted, the content it leaves, and the delta that it hands to the  *)
(* revision ring (None: no new revision).  A failed allocation changes       *)
(* nothing and is not an outcome here.                                      *)
(*                                                                          *)
(* An event is [id, notes, base, tuplet]: a rest has no notes, a Note one   *)
(* whose id is the event's, a Chord two or more.  Lengths are in units of   *)
(* the smallest duration.  A reference is [id, anchors, value]; a beam      *)
(* override has as many anchors as events, a hairpin or a slur two, a       *)
(* dynamic or a grace group one.  The value of a grace group is its notes.  *)
EXTENDS Integers, Sequences, SequencesExt, FiniteSetsExt, Functions

CONSTANTS
  None,
  PlainDurations,  \* what a Duration without a tuplet may resolve to
  LongestRest      \* bound: lengths decompose_rest() is asked for

ASSUME VoiceConstants ==
  /\ PlainDurations \subseteq Nat \ {0} /\ PlainDurations # {}
  /\ LongestRest \in Nat

Families == {"dynamics", "hairpins", "slurs", "beams", "graces"}

EmptyContent == [events |-> <<>>, refs |-> [f \in Families |-> <<>>]]

-----------------------------------------------------------------------------
(* Events *)

IsRest(e) == e.notes = <<>>
Resolved(e) == IF e.tuplet = None THEN e.base
               ELSE (e.base * e.tuplet.normal) \div e.tuplet.actual
Resting(id, length) == [id |-> id, notes |-> <<>>, base |-> length, tuplet |-> None]

\* The onset of every event, and of the end as one past the last.
Onsets(events) ==
  LET at[i \in 1..Len(events) + 1] ==
        IF i = 1 THEN 0 ELSE at[i - 1] + Resolved(events[i - 1])
  IN  at
TotalLength(events) == Onsets(events)[Len(events) + 1]

\* The place a search finds, 0 for none.
First(places) == IF places = {} THEN 0 ELSE Min(places)

\* find_index_at(): Len + 1 for the end, 0 for no boundary there.
IndexAt(events, position) ==
  LET onset == Onsets(events)
  IN  First({i \in DOMAIN onset : onset[i] = position})

IdsOf(events) ==
  UNION {{e.id} \union {n.id : n \in Range(e.notes)} : e \in Range(events)}
RefIds(refs) ==
  UNION {{r.id : r \in Range(refs[f])} : f \in Families}
    \union UNION {{n.id : n \in Range(r.value)} : r \in Range(refs["graces"])}
MarkingIdExists(c, id) == id \in IdsOf(c.events) \union RefIds(c.refs)
EventIdCollides(c, e) == \E id \in IdsOf(<<e>>) : MarkingIdExists(c, id)
EventIdCollidesBut(c, e, i) ==
  \E id \in IdsOf(<<e>>) : id \in RefIds(c.refs) \/ id \in IdsOf(RemoveAt(c.events, i))

-----------------------------------------------------------------------------
(* Rests *)

Unreachable == 99
\* The fewest plain durations that add up to n.
FewestTerms ==
  LET f[n \in 0..LongestRest] ==
        IF n = 0 THEN 0
        ELSE Min({Unreachable} \union {f[n - d] + 1 : d \in {p \in PlainDurations : p <= n}})
  IN  [n \in 0..LongestRest |-> f[n]]

\* decompose_rest_durations(): fewest terms, the largest duration first.
FirstTerm ==
  [n \in 1..LongestRest |->
    Max({0} \union {d \in PlainDurations : d <= n /\ FewestTerms[n - d] + 1 = FewestTerms[n]})]
DecomposeRest(length) ==
  LET chain[n \in 0..length] == IF n = 0 THEN <<>> ELSE <<FirstTerm[n]>> \o chain[n - FirstTerm[n]]
  IN  chain[length]
Decomposable(length) == length > 0 /\ FewestTerms[length] < Unreachable

\* Rests of `length'; generate() gives the ids after `mint'.
FreshRests(length, mint) ==
  LET Named(terms) == [k \in DOMAIN terms |-> Resting(mint + k, terms[k])]
  IN  Named(DecomposeRest(length))

\* decompose_rest_with_id(): the first one keeps the id of the rest it is left of.
RestsKeeping(id, length, mint) ==
  LET Keeping(rests) == <<[rests[1] EXCEPT !.id = id]>> \o Tail(rests)
  IN  Keeping(FreshRests(length, mint))

-----------------------------------------------------------------------------
(* Outcomes *)

NoDelta == [changed |-> {}, ops |-> <<>>, reorder |-> FALSE, reset |-> FALSE]
EventDelta(ids, reorder) == [NoDelta EXCEPT !.changed = ids, !.reorder = reorder]
Done(c, delta) == [ok |-> TRUE, content |-> c, delta |-> delta]
Refused(c) == [ok |-> FALSE, content |-> c, delta |-> NoDelta]

\* What may be rewritten is a set: empty when it may not, else of one sequence.
\* normalize_temp(): rests up to `target'.
Filled(events, target, mint) ==
  LET By(missing) == CASE missing = 0 -> {events}
                       [] missing > 0 /\ Decomposable(missing) -> {events \o FreshRests(missing, mint)}
                       [] OTHER -> {}
  IN  By(target - TotalLength(events))

\* The swap that follows it.
Completed(c, rewritten, target, mint, delta) ==
  LET Swapped(all) == IF all = {} THEN Refused(c)
                      ELSE Done([c EXCEPT !.events = CHOOSE events \in all : TRUE], delta)
  IN  Swapped(UNION {Filled(events, target, mint) : events \in rewritten})

-----------------------------------------------------------------------------
(* Mutators of the events *)

AppendEvent(c, e, group) ==
  LET last == c.events[Len(c.events)]
      inherits == c.events # <<>> /\ last.tuplet # None
                  /\ last.tuplet.actual = e.tuplet.actual /\ last.tuplet.normal = e.tuplet.normal
      grouped == IF e.tuplet = None \/ e.tuplet.group # None THEN e
                 ELSE [e EXCEPT !.tuplet.group = IF inherits THEN last.tuplet.group ELSE group]
  IN  IF EventIdCollides(c, e) THEN Refused(c)
      ELSE Done([c EXCEPT !.events = Append(@, grouped)], EventDelta({e.id}, TRUE))

Spliced(events, i, count, new) ==
  SubSeq(events, 1, i - 1) \o new \o SubSeq(events, i + count, Len(events))
LengthOf(events, i, count) == Onsets(events)[i + count] - Onsets(events)[i]

\* How many rests from i on fit whole into `length'.
WholeRests(events, i, length) ==
  LET Fits(k) == /\ \A j \in i..i + k - 1 : IsRest(events[j])
                 /\ LengthOf(events, i, k) <= length
  IN  Max({k \in 0..Len(events) - i + 1 : Fits(k)})

\* The rest at i, when `part' of it is consumed and the remainder decomposes.
Splits(events, i, part) ==
  /\ i <= Len(events) /\ IsRest(events[i])
  /\ Decomposable(Resolved(events[i]) - part)
Remainder(events, i, part, mint) ==
  RestsKeeping(events[i].id, Resolved(events[i]) - part, mint)

\* e takes the place of the rests from i on: whole ones, then part of one.
Overlaid(events, i, e, mint) ==
  LET Of(whole, missing) ==
        CASE missing = 0 -> {Spliced(events, i, whole, <<e>>)}
          [] missing > 0 /\ Splits(events, i + whole, missing) ->
               {Spliced(events, i, whole + 1, <<e>> \o Remainder(events, i + whole, missing, mint))}
          [] OTHER -> {}
      Over(whole) == Of(whole, Resolved(e) - LengthOf(events, i, whole))
  IN  Over(WholeRests(events, i, Resolved(e)))

InsertEvent(c, position, e, target, mint) ==
  LET At(i) ==
        CASE i = 0 \/ EventIdCollides(c, e) -> {}
          [] i = Len(c.events) + 1 -> {Append(c.events, e)}
          [] OTHER -> Overlaid(c.events, i, e, mint)
  IN  Completed(c, At(IndexAt(c.events, position)), target, mint, EventDelta({e.id}, TRUE))

(* Mutant of RemoveEvent: nothing takes the place of what is removed, and   *)
(* the voice is only filled up at its end.                                  *)
RemoveEvent_ClosesUp(c, position, target, mint) ==
  LET At(i) ==
        IF i \notin DOMAIN c.events THEN Refused(c)
        ELSE Completed(c, {RemoveAt(c.events, i)}, target, mint, EventDelta({c.events[i].id}, TRUE))
  IN  At(IndexAt(c.events, position))
RemoveEvent(c, position, target, mint) ==
  LET At(i) ==
        IF i \notin DOMAIN c.events THEN Refused(c)
        ELSE IF ~Decomposable(Resolved(c.events[i])) THEN Refused(c)
        ELSE Completed(c, {Spliced(c.events, i, 1, FreshRests(Resolved(c.events[i]), mint))},
                       target, mint, EventDelta({c.events[i].id}, TRUE))
  IN  At(IndexAt(c.events, position))

Remapped(refs, old, new) ==
  [f \in Families |->
    [k \in DOMAIN refs[f] |->
      [refs[f][k] EXCEPT !.anchors = [j \in DOMAIN @ |-> IF @[j] = old THEN new ELSE @[j]]]]]

\* A longer event takes the rests after it: whole ones, then part of one.
\* When it takes part of one, the whole ones before that stay where they are.
Expanded(events, i, e, mint) ==
  LET Of(whole, split, missing) ==
        CASE missing = 0 -> {Spliced(events, i, 1 + whole, <<e>>)}
          [] missing > 0 /\ Splits(events, split, missing) ->
               {Spliced([events EXCEPT ![i] = e], split, 1, Remainder(events, split, missing, mint))}
          [] OTHER -> {}
      Over(needed, whole) == Of(whole, i + 1 + whole, needed - LengthOf(events, i + 1, whole))
      By(needed) == Over(needed, WholeRests(events, i + 1, needed))
  IN  By(Resolved(e) - Resolved(events[i]))

\* Event i becomes e: as long, shorter by `gap', or longer.
Rewritten(events, i, e, gap, mint) ==
  CASE gap = 0 -> {[events EXCEPT ![i] = e]}
    [] gap > 0 -> IF Decomposable(gap) THEN {Spliced(events, i, 1, <<e>> \o FreshRests(gap, mint))}
                  ELSE {}
    [] gap < 0 -> Expanded(events, i, e, mint)

ReplaceEvent(c, position, e, target, mint) ==
  LET Renamed(r, old) == IF r.ok THEN [r EXCEPT !.content.refs = Remapped(@, old, e.id)] ELSE r
      By(i, old, gap) ==
        Renamed(Completed(c, Rewritten(c.events, i, e, gap, mint), target, mint,
                          [EventDelta({old, e.id}, gap # 0) EXCEPT !.reset = (old # e.id)]),
                old)
      At(i) == CASE i \notin DOMAIN c.events -> Refused(c)
                 [] EventIdCollidesBut(c, e, i) -> Refused(c)
                 [] OTHER -> By(i, c.events[i].id, Resolved(c.events[i]) - Resolved(e))
  IN  At(IndexAt(c.events, position))

\* set_tuplet_group(): `count' events from `first' on get the ratio, or lose it.
Grouped(events, members, tuplet) ==
  [i \in DOMAIN events |-> IF i \in members THEN [events[i] EXCEPT !.tuplet = tuplet] ELSE events[i]]
\* Only a rest outside tuplets can be taken for what the group needs.
TupletRestsKept(events) ==
  [i \in DOMAIN events |-> IF IsRest(events[i]) /\ events[i].tuplet # None
                           THEN [events[i] EXCEPT !.notes = <<None>>] ELSE events[i]]
Regrouping(events, given, after, needed, mint) ==
  LET Of(plain, whole, missing) ==
        CASE missing = 0 -> {Spliced(given, after, whole, <<>>)}
          [] missing > 0 /\ Splits(plain, after + whole, missing) ->
               {Spliced(given, after, whole + 1, Remainder(given, after + whole, missing, mint))}
          [] OTHER -> {}
      Over(plain, whole) == Of(plain, whole, needed - LengthOf(events, after, whole))
      With(plain) == Over(plain, WholeRests(plain, after, needed))
  IN  IF needed <= 0 THEN {given} ELSE With(TupletRestsKept(given))
SetTupletGroup(c, first, count, tuplet, target, mint) ==
  LET To(given) ==
        Regrouping(c.events, given, first + count,
                   LengthOf(given, first, count) - LengthOf(c.events, first, count), mint)
      members == first..first + count - 1
  IN  IF count = 0 \/ first + count > Len(c.events) + 1 THEN Refused(c)
      ELSE Completed(c, To(Grouped(c.events, members, tuplet)), target, mint,
                     [EventDelta({c.events[i].id : i \in members}, TRUE) EXCEPT !.reset = TRUE])

Normalize(c, target, mint) ==
  LET With(rests) == Done([c EXCEPT !.events = @ \o rests], EventDelta(IdsOf(rests), TRUE))
      By(missing) == CASE missing = 0 -> Done(c, None)
                       [] missing > 0 /\ Decomposable(missing) -> With(FreshRests(missing, mint))
                       [] OTHER -> Refused(c)
  IN  By(target - TotalLength(c.events))

Clear == Done(EmptyContent, [NoDelta EXCEPT !.reset = TRUE])

-----------------------------------------------------------------------------
(* Mutators of the references *)

RefOp(kind, f, r) == [kind |-> kind, family |-> f, id |-> r.id, record |-> r]
RefDelta(kind, f, r) == [NoDelta EXCEPT !.ops = <<RefOp(kind, f, r)>>]
RefIndex(c, f, id) == First({k \in DOMAIN c.refs[f] : c.refs[f][k].id = id})

AddRef(c, f, r) ==
  LET new == {r.id} \union (IF f = "graces" THEN {n.id : n \in Range(r.value)} ELSE {})
  IN  IF \E id \in new : MarkingIdExists(c, id) THEN Refused(c)
      ELSE Done([c EXCEPT !.refs[f] = Append(@, r)], RefDelta("add", f, r))

RemoveRef(c, f, id) ==
  LET k == RefIndex(c, f, id)
  IN  IF k = 0 THEN Refused(c)
      ELSE Done([c EXCEPT !.refs[f] = RemoveAt(@, k)], RefDelta("remove", f, c.refs[f][k]))

\* replace_dynamic(), replace_hairpin(), replace_beam_override(): in place.
ReplaceRef(c, f, r) ==
  LET k == RefIndex(c, f, r.id)
  IN  IF k = 0 THEN Refused(c)
      ELSE Done([c EXCEPT !.refs[f] = ReplaceAt(@, k, r)], RefDelta("update", f, r))

RemoveGraceNote(c, id) ==
  LET k == First({g \in DOMAIN c.refs["graces"] : \E n \in Range(c.refs["graces"][g].value) : n.id = id})
      group == c.refs["graces"][k]
      rest == SelectSeq(group.value, LAMBDA n : n.id # id)
  IN  CASE k = 0 -> Refused(c)
        [] rest = <<>> -> RemoveRef(c, "graces", group.id)
        [] OTHER -> ReplaceRef(c, "graces", [group EXCEPT !.value = rest])

\* set_notehead_pitch(): a Note, a note of a Chord, or a grace note.
Repitched(notes, id, pitch) ==
  [k \in DOMAIN notes |-> IF notes[k].id = id THEN [notes[k] EXCEPT !.pitch = pitch] ELSE notes[k]]
SetNoteheadPitch(c, id, pitch) ==
  LET Holds(notes) == \E n \in Range(notes) : n.id = id
      i == First({j \in DOMAIN c.events : Holds(c.events[j].notes)})
      k == First({j \in DOMAIN c.refs["graces"] : Holds(c.refs["graces"][j].value)})
      group == c.refs["graces"][k]
  IN  CASE i # 0 -> Done([c EXCEPT !.events[i].notes = Repitched(@, id, pitch)],
                         EventDelta({c.events[i].id}, FALSE))
        [] i = 0 /\ k # 0 ->
             ReplaceRef(c, "graces", [group EXCEPT !.value = Repitched(@, id, pitch)])
        [] OTHER -> Refused(c)

-----------------------------------------------------------------------------
(* The revision ring: the deltas of the last `room' (kMaxTrackedRevisions)  *)
(* revisions, oldest first.                                                 *)

NewJournal(lineage, room) ==
  [lineage |-> lineage, revision |-> 0, ring |-> <<>>, room |-> room]

AdvanceRevision(j, delta) ==
  LET ring == Append(j.ring, delta)
  IN  [j EXCEPT !.revision = @ + 1,
                !.ring = IF Len(ring) > j.room THEN Tail(ring) ELSE ring]

\* delta_since(): None for another lineage or a revision that fell off the
\* ring; a reset ends the merge, so what precedes it is all that is merged.
DeltaSince(j, since) ==
  LET oldest == IF Len(j.ring) >= j.room THEN j.revision - j.room ELSE 0
      merged == FoldLeft(
        LAMBDA d, k :
          IF d.reset \/ oldest + k <= since.revision THEN d
          ELSE IF j.ring[k].reset THEN [d EXCEPT !.reset = TRUE]
          ELSE [changed |-> d.changed \union j.ring[k].changed, ops |-> d.ops \o j.ring[k].ops,
                reorder |-> d.reorder \/ j.ring[k].reorder, reset |-> FALSE],
        NoDelta, [k \in DOMAIN j.ring |-> k])
  IN  CASE since.lineage # j.lineage -> None
        [] since.revision = j.revision -> NoDelta
        [] since.revision < oldest \/ since.revision > j.revision -> None
        [] OTHER -> merged
=============================================================================
