----------------------------- MODULE MCScoreEditing -----------------------------
(* Measures of four and of six and a pickdown of two.  Track a has staves s1 *)
(* (a chord over the barline, a duplet, a beam into the pickdown, a slur, a  *)
(* hairpin, a dynamic, grace notes, a pedal) and s2 (a long note tied on,    *)
(* and a tie over the barline); b has s3, and s5 that its lane has not yet;  *)
(* z is archived.                                                            *)
EXTENDS ScoreEditing

H(id, pitch, tied) == [id |-> id, pitch |-> pitch, tied |-> tied]
Sound(id, notes, length) ==
  [id |-> id, notes |-> notes, base |-> length, tuplet |-> None, style |-> Plain]
Note(id, pitch, length) == Sound(id, <<H(id, pitch, FALSE)>>, length)
Duplet(e) == [e EXCEPT !.tuplet = [actual |-> 2, normal |-> 1, group |-> 20]]
Reference(id, anchors, value) == [id |-> id, anchors |-> anchors, value |-> value]
Of(events) == [EmptyContent EXCEPT !.events = events]
Span(from, to) == [start |-> from, end |-> to]
Stave(first, second, pedals) == [voices |-> <<first, second>>, pedals |-> pedals]

First1 ==
  [Of(<<[Note(1, "C", 2) EXCEPT !.style.articulations = <<"tenuto">>], Sound(2, <<H(3, "D", FALSE), H(4, "E", FALSE)>>, 4),
        Duplet(Note(5, "C", 2)), Duplet(Note(6, "D", 2)), Note(7, "C", 2), Note(8, "E", 2)>>)
   EXCEPT !.refs["beams"] = <<Reference(10, <<5, 6, 7, 8>>, "join")>>,
          !.refs["slurs"] = <<Reference(11, <<1, 8>>, None)>>,
          !.refs["hairpins"] = <<Reference(12, <<2, 7>>, "louder")>>,
          !.refs["dynamics"] = <<Reference(13, <<2>>, "p")>>,
          !.refs["graces"] = <<Reference(14, <<8>>, <<H(15, "D", FALSE)>>)>>]
Second1 == Of(<<Resting(1, 2), Sound(2, <<H(2, "D", TRUE)>>, 8), Note(3, "D", 2)>>)
Second2 == Of(<<Sound(1, <<H(1, "E", TRUE)>>, 4), Note(2, "E", 4), Resting(3, 4)>>)
Third1  == Of(<<Note(1, "C", 4), Note(2, "D", 4), Note(3, "E", 4)>>)
Fourth1 == Of(<<Note(1, "C", 2), Note(2, "D", 4), Resting(3, 2), Note(4, "E", 4)>>)

MCStart ==
  [measures |-> <<"four", "six">>, pickdown |-> 2,
   tempo |-> (0 :> "slow") @@ (10 :> "fast"),
   clefs |-> ("s1" :> (4 :> "bass")) @@ ("s2" :> <<>>),
   lanes |->
     ("a" :> (("s1" :> Stave(First1, EmptyContent, <<Span(2, 8)>>))
                @@ ("s2" :> Stave(Second1, Second2, <<Span(4, 10)>>)))
     @@ "b" :> ("s3" :> Stave(Third1, EmptyContent, <<>>))
     @@ "z" :> ("s4" :> Stave(Fourth1, EmptyContent, <<Span(2, 6)>>)))]

MCMeterLength == [four |-> 4, alsofour |-> 4, six |-> 6, two |-> 2]
MCActive == <<"a", "b">>
MCLayout == [a |-> <<"s1", "s2">>, b |-> <<"s3", "s5">>, z |-> <<"s4">>]
MCDefaultClef == [s \in {"s1", "s2", "s3", "s4", "s5"} |-> "treble"]
MCPedalSpans == {Span(0, 4)}
Ranged(voices, start, end) == [arm |-> "range", voices |-> voices, start |-> start, end |-> end]
MCSelections ==
  {Measures({"s1", "s2"}, 2, 1), Measures({"s3"}, 1, 2),
   Ranged({<<"s1", 1>>, <<"s3", 1>>}, 2, 8), Ranged({<<"s2", 1>>}, 0, 8), Ranged({<<"s2", 1>>}, 8, 12),
   Ranged({<<"s1", 1>>}, 4, 7), Ranged({<<"s2", 1>>}, 3, 6)}
MCDestinations ==
  {Ranged({<<"s1", 1>>}, 4, 7), Caret("s2", 1, 0), Item("notehead", "s3", 1, 2),
   Measures({"s3"}, 1, 2), Measures({"s2", "s3"}, 2, 1)}
=============================================================================
