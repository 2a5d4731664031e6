------------------------------- MODULE MCCaches -------------------------------
(* Two caches that are told what changed, and share no state: the           *)
(* diagnostics of a project of up to two nodes, and the layout's index of   *)
(* one voice.                                                               *)
(*                                                                          *)
(* A node is one of six: it has an input, an output to b's input (which it  *)
(* may have itself, with a binding without a listener), an output whose id  *)
(* is nil, or notation: dangling or, under a track the project does not     *)
(* have, repeated, nil and incomplete.                                      *)
(*                                                                          *)
(* The voice has two measures of four and a tail of two: a note in each, a  *)
(* slur from the first to the second, a hairpin from the second into the    *)
(* tail and a dynamic in the tail.                                          *)
EXTENDS ValidationService, TLC

CONSTANTS Parts,                  \* the parts a run explores
          Starts,                 \* bound: start nodes of the first project
          EditedVoice             \* the mutators it calls on the voice

VARIABLES part, content, journal, index, minted, mutations, updates, dirty, original, entered
voiceVars == <<content, journal, index, minted, mutations, updates, dirty, original, entered>>

Stave(ids, repeated, faults, tiles) ==
  [ids |-> ids, repeated |-> repeated, faults |-> faults, refs |-> ids, tiles |-> tiles]
Lane(t, stave) == t :> ("s" :> stave)
Plain == [inputs |-> {}, output |-> <<>>, listener |-> <<>>,
          timeline |-> [faults |-> {}, clef |-> ("s" :> [clef |-> "g", strayChange |-> FALSE])],
          lane |-> Lane("t", Stave({}, {}, {}, TRUE))]
Out(dest, event) == [type |-> Sequential, export |-> TRUE, dest |-> dest, event |-> event, weight |-> 1]
IntoB == [node |-> "b", connector |-> "c"]
MCNodeValues == {
  [Plain EXCEPT !.inputs = {"c"}],
  [Plain EXCEPT !.output = ("o" :> Out(IntoB, None))],
  [Plain EXCEPT !.output = ("o" :> Out(IntoB, "e")), !.inputs = {"c"}],
  [Plain EXCEPT !.output = ("nil" :> Out(None, None))],
  [Plain EXCEPT !.lane = Lane("t", Stave({"e", "h"}, {}, {<<"h", "SlurDanglingEndpoint">>}, TRUE))],
  [Plain EXCEPT !.lane = Lane("u", Stave({"e", "nil"}, {"e"}, {<<"nil", "DanglingTie">>}, FALSE))]}
OneEvent == [illegalTempo |-> FALSE, namesakes |-> {}, events |-> {"e"}, active |-> {"t"},
             archived |-> {}, layout |-> ("t" :> ("s" :> "g"))]
MCProjects == {OneEvent, [OneEvent EXCEPT !.events = {}]}

VoiceNote(id, length) ==
  [id |-> id, notes |-> <<[id |-> id, pitch |-> "c"]>>, base |-> length, tuplet |-> None]
VoiceRest(id, length) == [id |-> id, notes |-> <<>>, base |-> length, tuplet |-> None]
Reference(id, anchors) == [id |-> id, anchors |-> anchors, value |-> "c"]
VoiceStart ==
  [events |-> <<VoiceNote(1, 2), VoiceRest(2, 2), VoiceNote(3, 2), VoiceRest(4, 2), VoiceNote(5, 2)>>,
   refs |-> [slurs |-> <<Reference(6, <<1, 3>>)>>, hairpins |-> <<Reference(8, <<3, 5>>)>>,
             dynamics |-> <<Reference(7, <<5>>)>>, beams |-> <<>>, graces |-> <<>>]]
Voice == INSTANCE VoiceEditing WITH
  edits <- mutations,
  PlainDurations <- {1, 2, 4}, LongestRest <- 10, MeasureLengths <- <<4, 4>>, Pickdown <- 2,
  Start <- VoiceStart, FirstId <- 9, Edits <- EditedVoice, Pitches <- {"c"}, Rooms <- {1, 2},
  Ratio <- [group |-> 0, actual |-> 2, normal |-> 1],
  MaxEdits <- 2, MaxUpdates <- 2, MaxRanges <- 1

MCInit ==
  /\ part \in Parts /\ Init /\ Voice!Init
  /\ start \in Starts /\ (part = "voice" => DOMAIN node = {} /\ project = OneEvent /\ start = None)
  /\ part = "diagnostics" => journal.room = 1
\* Bound: the project itself changes last, while it has one node or none.
Small == ProjectChange \in changes' \ changes => edits' = MaxEdits /\ Cardinality(DOMAIN node) < 2
MCNext == /\ UNCHANGED part
          /\ \/ part = "diagnostics" /\ Next /\ Small /\ UNCHANGED voiceVars
             \/ part = "voice" /\ Voice!Next /\ UNCHANGED vars
MCSpec == MCInit /\ [][MCNext]_<<vars, voiceVars, part>>

(* VoiceEditing's properties: refreshing the index after an edit gives the  *)
(* index a build gives (in the tail too, the header says; not quite, the    *)
(* code does), and an edit leaves the later onsets where they were.         *)
RefreshEqualsBuild            == Voice!RefreshEqualsBuild
RefreshEqualsBuildOutsideTail == Voice!RefreshEqualsBuildOutsideTail
EditsStayLocal                == Voice!EditsStayLocal
=============================================================================
