--------------------------- MODULE MCWriterSession ---------------------------
(* Three measures of four and a tail of two, a system each unless they are   *)
(* empty: two notes, the second tied into the chord of the next measure,    *)
(* a beamed pair with a grace note, a rest, and a note in the tail; a slur  *)
(* over the first barline, a hairpin into the tail, a dynamic.              *)
EXTENDS WriterSession

Pitch(step) == [step |-> step, alter |-> 0]
NoteAt(id, step, tied) == [id |-> id, pitch |-> Pitch(step), tied |-> tied]
Sound(id, notes, length) ==
  [id |-> id, notes |-> notes, base |-> length, tuplet |-> None, style |-> Plain]
Reference(id, anchors, value) == [id |-> id, anchors |-> anchors, value |-> value]

MCStart ==
  [EmptyContent EXCEPT
    !.events = <<Sound(1, <<NoteAt(1, 6, FALSE)>>, 2), Sound(2, <<NoteAt(2, 7, TRUE)>>, 2),
                 Sound(3, <<NoteAt(4, 7, FALSE), NoteAt(5, 8, FALSE)>>, 2),
                 Sound(6, <<NoteAt(6, 7, FALSE)>>, 2),
                 Resting(7, 4), Sound(8, <<NoteAt(8, 7, FALSE)>>, 2)>>,
    !.refs["slurs"] = <<Reference(9, <<1, 6>>, None)>>,
    !.refs["beams"] = <<Reference(10, <<3, 6>>, "join")>>,
    !.refs["graces"] = <<Reference(11, <<6>>, <<NoteAt(12, 7, FALSE)>>)>>,
    !.refs["hairpins"] = <<Reference(13, <<6, 8>>, "louder")>>,
    !.refs["dynamics"] = <<Reference(14, <<1>>, "p")>>]
MCLengths == <<4, 4, 4>>
MCRests   == <<4, 4, 4, 2>>
MCMoves   == {1}
MCAccidentals == {-1}
MCSpans   == {<<2, 2>>}
MCRatios  == {[actual |-> 2, normal |-> 1, group |-> 0]}
MCTranspositions == {[from |-> 4, to |-> 8, chromatic |-> TRUE, by |-> -1]}
MCClicks  == {<<6, 8>>}
=============================================================================
