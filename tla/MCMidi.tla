------------------------------- MODULE MCMidi -------------------------------
(* The tracker on a small set of ids, either under arbitrary calls or driven *)
(* by a caller that keeps the header's obligations.  Two nodes may cycle     *)
(* through each other and themselves; s1 is notated in the main region of n1 *)
(* and s2 in its pickdown.                                                   *)
EXTENDS MidiPlayback, TLC

CONSTANTS c1, p1, t1, t2, n1

AllSpansInN1 == [s \in Spans |-> n1]

\* Nothing tells one attack id from another.
AttackIds == Permutations(Attacks)

\* Bounds: arbitrary calls are about one pitch of two channels and one tail,
\* the caller's about two pitches of one channel and two tails.
AnyCall ==
  \/ \E n \in Nodes : BeginPickdownTail(n, t1) \/ TransferMainToPickdownTail(n, t1) \/ VerticalJump(n)
  \/ \E c \in Channels, scope \in Scopes \ {TailScope(t2)}, a \in Attacks : AttackNote(<<c, p1>>, scope, a)
  \/ \E a \in Attacks : ReleaseNote(a)
  \/ \E c \in Channels, s \in Spans, scope \in Scopes \ {TailScope(t2)} : PedalDown(c, s, scope)
  \/ \E c \in Channels, s \in Spans : PedalUp(c, s)
  \/ RetirePickdownTailSnapshot(t1)
  \/ ClearAll
ObligingCall ==
  \/ \E p \in Pitches, a \in Attacks : Strike(<<c1, p>>, a)
  \/ \E a \in Attacks : NoteEnds(a)
  \/ \E s \in Spans : SpanStarts(c1, s) \/ SpanEnds(c1, s)
  \/ \E s \in Snapshots : ReachBoundary(s) \/ TailCompletes(s)
  \/ \E dest \in Nodes \union {None} : CrossBoundary(dest) \/ CrossPlainBoundary(dest) \/ Restart(dest)
  \/ \E dest \in Nodes : Jump(dest)

MCNext ==
  \/ ~obliging /\ AnyCall /\ UNCHANGED <<caller, obliging>>
  \/ obliging /\ ObligingCall /\ UNCHANGED obliging

MCSpec == PlaybackInit /\ [][MCNext]_pvars
=============================================================================
