------------------------------ MODULE VoiceIndex ------------------------------
(* The index the incremental layout keeps of a voice (notation_index.cpp):  *)
(* which events begin in which measure, which references touch it, and      *)
(* where to resume in the middle of the voice.  It is either built anew or  *)
(* refreshed over a range of measures with the deltas the voice recorded    *)
(* since; both must give the same index.                                    *)
(*                                                                          *)
(* Measures are 1..Count; Count + 1 is the bucket of the pickdown tail.     *)
EXTENDS VoiceContent

CONSTANTS
  MeasureLengths,  \* the lengths of the main-region measures
  Pickdown         \* pickdown_duration(), 0 for none

Count    == Len(MeasureLengths)
Measures == 1..Count
Buckets  == 1..Count + 1

Total(lengths) ==
  LET sum[n \in 0..Len(lengths)] == IF n = 0 THEN 0 ELSE sum[n - 1] + lengths[n]
  IN  sum[Len(lengths)]
Boundary == Total(MeasureLengths)
MeasureStart ==
  LET from[m \in Buckets] == IF m = 1 THEN 0 ELSE from[m - 1] + MeasureLengths[m - 1] IN from
NodeEnd  == Boundary + Pickdown
MeasureAt(onset) ==
  CHOOSE m \in Measures : MeasureStart[m] <= onset /\ onset < MeasureStart[m + 1]

ASSUME IndexConstants ==
  /\ MeasureLengths \in Seq(Nat \ {0}) /\ MeasureLengths # <<>>
  /\ Pickdown \in Nat

-----------------------------------------------------------------------------
(* Building *)

\* IndexedEvent; `look' is what event_spacing() and the engraver read of it.
Indexed(events, i, onset, m) ==
  [index |-> i, onset |-> onset, measure |-> m, id |-> events[i].id,
   look |-> [events[i] EXCEPT !.id = None]]

\* The events from..to, the first at `start', that begin in bucket m.
BucketAt(onset) == IF onset < Boundary THEN MeasureAt(onset) ELSE Count + 1
IndexedAll(events, here, onsets, m) ==
  [k \in 1..Cardinality(here) |->
    LET I(i) == Indexed(events, i, onsets[i], m) IN I(Min(here) + k - 1)]
Bucket(events, from, to, start, m) ==
  LET Shift(onset) == [i \in DOMAIN onset |-> start + onset[i] - onset[from]]
      At(at) == IndexedAll(events, {i \in from..to : at[i] < NodeEnd /\ BucketAt(at[i]) = m}, at, m)
  IN  At(Shift(Onsets(events)))

ById(buckets) ==
  LET Of(all) == [id \in {r.id : r \in all} |-> CHOOSE r \in all : r.id = id]
  IN  Of(UNION {Range(buckets[m]) : m \in DOMAIN buckets})

\* assign_single_measure_membership(), assign_span_membership().
Membership(byId, anchors) ==
  LET M(k) == byId[anchors[k]].measure
      Segment(j, k) == IF anchors[j] \in DOMAIN byId /\ anchors[k] \in DOMAIN byId
                       THEN Min({M(j), M(k)})..Max({M(j), M(k)}) ELSE {}
  IN  IF Len(anchors) = 1 THEN Segment(1, 1)
      ELSE UNION {Segment(k - 1, k) : k \in 2..Len(anchors)}

\* rebuild_voice_reference_index()
InitFamily(source, byId) ==
  LET Entry(r, k) == [record |-> r, key |-> k - 1, member |-> Membership(byId, r.anchors)]
      Of(entries) ==
        [entries |-> entries,
         byMeasure |-> [m \in Buckets |-> {id \in DOMAIN entries : m \in entries[id].member}],
         next |-> Len(source)]
  IN  Of([id \in {r.id : r \in Range(source)} |->
           CHOOSE e \in {Entry(source[k], k) : k \in DOMAIN source} : e.record.id = id])

ReverseRefs(refs) ==
  LET all == UNION {Range(refs[f]) : f \in Families}
  IN  [event \in UNION {Range(r.anchors) : r \in all} |->
        {r.id : r \in {s \in all : event \in Range(s.anchors)}}]

\* The carry into each of first..last: the next event and where it begins.
Predecessors(pred, buckets, first, last) ==
  LET carry[m \in first..last] ==
        IF m = first THEN pred[first]
        ELSE IF buckets[m - 1] = <<>> THEN carry[m - 1]
        ELSE LET back == buckets[m - 1][Len(buckets[m - 1])]
             IN  [index |-> back.index + 1, onset |-> back.onset + Resolved(back.look)]
  IN  [m \in DOMAIN pred |-> IF m \in first..last THEN carry[m] ELSE pred[m]]

TokenOf(j) == [lineage |-> j.lineage, revision |-> j.revision]

BuildIndex(c, j) ==
  LET Of(buckets, byId) ==
        [buckets |-> buckets,
         byId |-> byId,
         family |-> [f \in Families |-> InitFamily(c.refs[f], byId)],
         reverse |-> ReverseRefs(c.refs),
         pred |-> Predecessors([m \in Measures |-> None], buckets, 1, Count),
         token |-> TokenOf(j)]
      From(buckets) == Of(buckets, ById(buckets))
  IN  From([m \in Buckets |-> Bucket(c.events, 1, Len(c.events), 0, m)])

-----------------------------------------------------------------------------
(* Refreshing the events of first..last *)

\* Where the walk starts, and how many events it visits before the range ends.
Resume(ix, first) ==
  IF ix.pred[first] = None THEN [index |-> 1, onset |-> MeasureStart[first]] ELSE ix.pred[first]
Visited(events, from, last) ==
  LET onset == Onsets(events)
      hits == {i \in from.index..Len(events) :
                 from.onset + onset[i] - onset[from.index] < MeasureStart[last + 1]}
  IN  Cardinality(hits)

Forgotten(byId, ids) == Restrict(byId, DOMAIN byId \ ids)
Overwritten(byId, new) ==
  [id \in DOMAIN byId \union DOMAIN new |-> IF id \in DOMAIN new THEN new[id] ELSE byId[id]]
(* Mutant of Shifted: what follows the range keeps its old indices.         *)
Shifted_Never(bucket, by) == bucket
Shifted(bucket, by) == [k \in DOMAIN bucket |-> [bucket[k] EXCEPT !.index = @ + by]]

RefreshEvents(ix, events, first, last) ==
  LET final == last = Count
      IdsIn(ms) == UNION {{r.id : r \in Range(ix.buckets[m])} : m \in ms}
      Main(buckets) == Overwritten(Forgotten(ix.byId, IdsIn(first..last)),
                                   ById([m \in first..Count |-> buckets[m]]))
      Kept(main) == IF final THEN Forgotten(main, IdsIn({Count + 1})) ELSE main
      With(buckets, by) ==
        [ix EXCEPT
          !.buckets = buckets,
          !.byId = Overwritten(Kept(Main(buckets)), ById([m \in {Count + 1} |-> buckets[m]])),
          !.pred = Predecessors(@, buckets, first, IF by = 0 THEN last ELSE Count)]
      Walked(from, visited, by) ==
        With([m \in Buckets |->
               IF m < first THEN ix.buckets[m]
               ELSE IF m <= last \/ (m = Count + 1 /\ final)
               THEN Bucket(events, from.index,
                           IF m <= last THEN from.index + visited - 1 ELSE Len(events),
                           from.onset, m)
               ELSE Shifted(ix.buckets[m], by)],
             by)
      After(from, visited) ==
        Walked(from, visited,
               visited - Total([k \in 1..last - first + 1 |-> Len(ix.buckets[first + k - 1])]))
      From(from) == After(from, Visited(events, from, last))
  IN  From(Resume(ix, first))

-----------------------------------------------------------------------------
(* Refreshing the references, by the operations of a delta *)

Evicted(family, id) ==
  [m \in Buckets |-> IF m \in family.entries[id].member
                     THEN family.byMeasure[m] \ {id} ELSE family.byMeasure[m]]
Admitted(byMeasure, member, id) ==
  [m \in Buckets |-> IF m \in member THEN byMeasure[m] \union {id} ELSE byMeasure[m]]
Unlinked(reverse, anchors, id) ==
  LET left == [e \in DOMAIN reverse |->
                IF e \in Range(anchors) THEN reverse[e] \ {id} ELSE reverse[e]]
  IN  Restrict(left, {e \in DOMAIN left : left[e] # {}})
Linked(reverse, anchors, id) ==
  [e \in DOMAIN reverse \union Range(anchors) |->
    (IF e \in DOMAIN reverse THEN reverse[e] ELSE {})
      \union (IF e \in Range(anchors) THEN {id} ELSE {})]

\* recompute_single(), recompute_span() and their likes.
Replaced(ix, f, id) ==
  LET member == Membership(ix.byId, ix.family[f].entries[id].record.anchors)
  IN  [ix EXCEPT
        !.family[f].byMeasure = Admitted(Evicted(ix.family[f], id), member, id),
        !.family[f].entries[id].member = member]

RemoveEntry(ix, f, id) ==
  LET family == ix.family[f]
  IN  IF id \notin DOMAIN family.entries THEN ix
      ELSE [ix EXCEPT
             !.family[f].byMeasure = Evicted(family, id),
             !.family[f].entries = Restrict(@, DOMAIN @ \ {id}),
             !.reverse = Unlinked(@, family.entries[id].record.anchors, id)]

AddEntry(ix, f, r) ==
  LET member == Membership(ix.byId, r.anchors)
      entry == [record |-> r, key |-> ix.family[f].next, member |-> member]
      old == ix.family[f].entries
  IN  [ix EXCEPT
        !.family[f].byMeasure = Admitted(@, member, r.id),
        !.family[f].next = @ + 1,
        !.family[f].entries = [id \in DOMAIN old \union {r.id} |->
                                IF id \in DOMAIN old THEN old[id] ELSE entry],
        !.reverse = Linked(@, r.anchors, r.id)]

UpdateEntry(ix, f, r) ==
  IF r.id \notin DOMAIN ix.family[f].entries THEN ix
  ELSE LET old == ix.family[f].entries[r.id].record.anchors
           relinked == Linked(Unlinked(ix.reverse, old, r.id), r.anchors, r.id)
       IN  Replaced([ix EXCEPT !.family[f].entries[r.id].record = r, !.reverse = relinked],
                    f, r.id)

ApplyOp(ix, op) ==
  CASE op.kind = "remove" -> RemoveEntry(ix, op.family, op.id)
    [] op.kind = "add"    -> AddEntry(ix, op.family, op.record)
    [] op.kind = "update" -> UpdateEntry(ix, op.family, op.record)

Reindexed(ix, changed) ==
  LET affected == UNION {ix.reverse[e] : e \in changed \intersect DOMAIN ix.reverse}
      Step(acc, f) == FoldSet(LAMBDA id, x : Replaced(x, f, id), acc,
                              affected \intersect DOMAIN acc.family[f].entries)
  IN  FoldSet(LAMBDA f, x : Step(x, f), ix, Families)

\* refresh_voice_range()
RefreshRange(ix, c, j, first, last) ==
  LET Moved(byId) == {id \in DOMAIN byId :
                       \E m \in first..last : \E r \in Range(ix.buckets[m]) :
                         r.id = id /\ byId[id].measure # m}
      Rebuilt(fresh) == [fresh EXCEPT
                          !.family = [f \in Families |-> InitFamily(c.refs[f], fresh.byId)],
                          !.reverse = ReverseRefs(c.refs)]
      Synced(fresh, delta) ==
        IF delta = None THEN Rebuilt(fresh)
        ELSE IF delta.reset \/ delta.reorder THEN Rebuilt(fresh)
        ELSE Reindexed(FoldLeft(ApplyOp, fresh, delta.ops), delta.changed \union Moved(fresh.byId))
  IN  [Synced(RefreshEvents(ix, c.events, first, last), DeltaSince(j, ix.token))
         EXCEPT !.token = TokenOf(j)]

-----------------------------------------------------------------------------
(* Comparing *)

\* Order keys only rank the references of a family.
Ranked(family) ==
  [family EXCEPT !.next = 0,
     !.entries = [id \in DOMAIN @ |->
       [@[id] EXCEPT !.key = Cardinality({o \in DOMAIN family.entries :
                                            family.entries[o].key < family.entries[id].key})]]]
Comparable(ix) == [ix EXCEPT !.family = [f \in Families |-> Ranked(@[f])]]
=============================================================================
