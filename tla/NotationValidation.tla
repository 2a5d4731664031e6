-------------------------- MODULE NotationValidation --------------------------
(* What the commands require of the voice they leave behind: the checks of  *)
(* notation_validation.cpp and the candidate check of the marking commands. *)
(*                                                                          *)
(* A notehead is [id, pitch, tied]; an event that sounds also has a style,  *)
(* [articulations, stem].  A pitch is [step, alter], the step counted from  *)
(* a C in letters.                                                          *)
EXTENDS VoiceContent

CONSTANTS
  Steps,                  \* bound: the letters of the instance, each in its octave
  HighestSemitone,        \* bound: the top of the instance's range
  BeamableLengths,        \* base durations of an eighth or shorter
  DurationArticulations   \* staccato, staccatissimo, tenuto

ASSUME ValidationConstants ==
  /\ Steps \subseteq Nat /\ HighestSemitone \in Nat
  /\ BeamableLengths \subseteq PlainDurations

\* SpelledPitch: the range stands for that of MIDI, the double accidentals are its own.
Semitones(p) == 12 * (p.step \div 7) + <<0, 2, 4, 5, 7, 9, 11>>[(p.step % 7) + 1] + p.alter
Pitches == {p \in [step : Steps, alter : -2..2] : Semitones(p) \in 0..HighestSemitone}

\* Where the event is, 0 for nowhere.
Place(c, id)   == First({i \in DOMAIN c.events : c.events[i].id = id})
EventOf(c, id) == c.events[Place(c, id)]
Exists(c, id)  == \E e \in Range(c.events) : e.id = id
Plays(c, id)  == Exists(c, id) /\ ~IsRest(EventOf(c, id))

\* The style a note is made with.
Plain == [articulations |-> <<>>, stem |-> "auto"]

SoundsPitch(e, pitch) == \E n \in Range(e.notes) : n.pitch = pitch
Beamable(e) == ~IsRest(e) /\ e.base \in BeamableLengths

TiesLand(c) ==
  \A i \in DOMAIN c.events : \A n \in Range(c.events[i].notes) :
    n.tied => i < Len(c.events) /\ SoundsPitch(c.events[i + 1], n.pitch)

ArticulationsAgree(e) ==
  IsRest(e) \/ LET a == e.style.articulations
               IN  IsInjective(a) /\ Cardinality(Range(a) \intersect DurationArticulations) <= 1

SpanHolds(c, r) == /\ Exists(c, r.anchors[1]) /\ Exists(c, r.anchors[2])
                   /\ Place(c, r.anchors[1]) < Place(c, r.anchors[2])
SlurHolds(c, r) == SpanHolds(c, r) /\ \A id \in Range(r.anchors) : Plays(c, id)

BeamHolds(c, r) ==
  LET places == {Place(c, id) : id \in Range(r.anchors)}
  IN  /\ r.anchors # <<>>
      /\ \A id \in Range(r.anchors) : Exists(c, id) /\ Beamable(EventOf(c, id))
      /\ IsInjective(r.anchors) /\ places = Min(places)..Max(places)

\* A group is contiguous, of one ratio, and adds up to whole plain durations.
TupletHolds(c, group) ==
  LET members == {i \in DOMAIN c.events : c.events[i].tuplet # None
                                         /\ c.events[i].tuplet.group = group}
      first == Min(members)
      ratio == c.events[first].tuplet
      sum == LengthOf(c.events, first, Cardinality(members))
  IN  /\ ratio.actual # ratio.normal
      /\ members = first..Max(members)
      /\ \A i \in members : c.events[i].tuplet = ratio
      /\ sum % c.events[first].base = 0
TupletsHold(c) ==
  /\ \A e \in Range(c.events) : e.tuplet # None => e.tuplet.group # None
  /\ \A e \in Range(c.events) : e.tuplet # None => TupletHolds(c, e.tuplet.group)

\* validate_voice_references()
ReferencesHold(c) ==
  /\ TiesLand(c)
  /\ \A e \in Range(c.events) : ArticulationsAgree(e)
  /\ \A r \in Range(c.refs["hairpins"]) : SpanHolds(c, r)
  /\ \A r \in Range(c.refs["slurs"])    : SlurHolds(c, r)
  /\ \A r \in Range(c.refs["beams"])    : BeamHolds(c, r)
  /\ TupletsHold(c)
  /\ \A r \in Range(c.refs["dynamics"]) : Exists(c, r.anchors[1])
  /\ \A r \in Range(c.refs["graces"])   : Plays(c, r.anchors[1])
=============================================================================
