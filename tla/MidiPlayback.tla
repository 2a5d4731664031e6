----------------------------- MODULE MidiPlayback -----------------------------
(***************************************************************************)
(* MidiOwnershipTracker driven by a caller that keeps the obligations      *)
(* midi_ownership.hpp puts on it: main scope only for the active node,     *)
(* tail scope only for an open snapshot, and a boundary that begins a      *)
(* tail, transfers into it at once and then enters its destination.  The   *)
(* scheduler that will make these calls is still a stub in the repository, *)
(* so the caller is external: it is the protocol of the header's overview. *)
(* A caller that does not oblige calls the tracker as it likes.            *)
(***************************************************************************)
EXTENDS MidiOwnership

CONSTANTS
  PickdownNodes,  \* the nodes whose timeline has a pickdown region
  PickdownSpans,  \* the spans notated to start inside a pickdown region
  SpanHome        \* the node each span is notated in

ASSUME NotatedMaterial ==
  /\ PickdownNodes \subseteq Nodes
  /\ PickdownSpans \subseteq Spans
  /\ SpanHome \in [Spans -> Nodes]

VARIABLES
  obliging,     \* whether the caller keeps the obligations
  active,       \* the active main node; None while stopped
  tails,        \* snapshots begun and not yet retired or cleared
  boundary,     \* the snapshot begun at a boundary still awaiting its transfer
  mainAttacks,  \* history: attacks struck by main material since `active' was entered
  logicalSpans  \* history: spans started and not ended, as <<channel, span, scope>>

caller == <<active, tails, boundary, mainAttacks, logicalSpans>>
pvars  == <<vars, caller, obliging>>

PlaybackInit ==
  /\ Init
  /\ obliging \in BOOLEAN
  /\ active = None
  /\ tails = {}
  /\ boundary = None
  /\ mainAttacks = {}
  /\ logicalSpans = {}

(* Scopes material may be given at this instant. *)
LiveScopes == {TailScope(s) : s \in tails}
                \union (IF active = None THEN {} ELSE {MainScope(active)})

-----------------------------------------------------------------------------
(* Scheduled material *)

Strike(k, a) ==
  /\ boundary = None
  /\ \E scope \in LiveScopes :
       /\ AttackNote(k, scope, a)
       /\ mainAttacks' = IF scope.region = "main" THEN mainAttacks \union {a} ELSE mainAttacks
  /\ UNCHANGED <<active, tails, boundary, logicalSpans>>

(* The notated end of a note arrives, whatever became of its attack. *)
NoteEnds(a) ==
  /\ boundary = None
  /\ a \in minted
  /\ ReleaseNote(a)
  /\ UNCHANGED caller

(* A span starts in the region it is notated in: with the active main, or *)
(* with a tail of its node.                                                *)
StartScopes(s) ==
  IF s \in PickdownSpans
  THEN {TailScope(t) : t \in {u \in tails : snapshotSource[u] = SpanHome[s]}}
  ELSE {MainScope(n) : n \in {SpanHome[s]} \intersect {active}}

SpanStarts(c, s) ==
  /\ boundary = None
  /\ \E scope \in StartScopes(s) :
       /\ <<c, s, scope>> \notin logicalSpans
       /\ PedalDown(c, s, scope)
       /\ logicalSpans' = logicalSpans \union {<<c, s, scope>>}
  /\ UNCHANGED <<active, tails, boundary, mainAttacks>>

SpanEnds(c, s) ==
  /\ boundary = None
  /\ \E scope \in Scopes :
       /\ <<c, s, scope>> \in logicalSpans
       /\ PedalUp(c, s)
       /\ logicalSpans' = logicalSpans \ {<<c, s, scope>>}
  /\ UNCHANGED <<active, tails, boundary, mainAttacks>>

-----------------------------------------------------------------------------
(* Transitions *)

(* The end of the main region of a node with a pickdown: its tail begins. *)
ReachBoundary(s) ==
  /\ boundary = None
  /\ active \in PickdownNodes
  /\ BeginPickdownTail(active, s)
  /\ boundary' = s
  /\ tails' = tails \union {s}
  /\ UNCHANGED <<active, mainAttacks, logicalSpans>>

(* Crossing material moves into the tail; the destination, or nothing when *)
(* playback stops at the boundary, becomes active.                         *)
CrossBoundary(dest) ==
  /\ boundary # None
  /\ TransferMainToPickdownTail(active, boundary)
  /\ logicalSpans' = {<<p[1], p[2], Rescoped(p[3], active, boundary)>> : p \in logicalSpans}
  /\ active' = dest
  /\ boundary' = None
  /\ mainAttacks' = {}
  /\ UNCHANGED tails

(* A node without a pickdown holds nothing past its main region, so its    *)
(* material has ended when its boundary is crossed.                        *)
CrossPlainBoundary(dest) ==
  /\ boundary = None
  /\ active \in Nodes \ PickdownNodes
  /\ \A k \in NoteKeys : noteOwners[k] # None => noteOwners[k].scope # MainScope(active)
  /\ \A p \in logicalSpans : p[3] # MainScope(active)
  /\ active' = dest
  /\ mainAttacks' = {}
  /\ UNCHANGED <<vars, tails, boundary, logicalSpans>>

Jump(dest) ==
  /\ boundary = None
  /\ active # None
  /\ VerticalJump(active)
  /\ logicalSpans' = {p \in logicalSpans : p[3] # MainScope(active)}
  /\ active' = dest
  /\ mainAttacks' = {}
  /\ UNCHANGED <<tails, boundary>>

TailCompletes(s) ==
  /\ boundary = None
  /\ s \in tails
  /\ RetirePickdownTailSnapshot(s)
  /\ tails' = tails \ {s}
  /\ logicalSpans' = {p \in logicalSpans : p[3] # TailScope(s)}
  /\ UNCHANGED <<active, boundary, mainAttacks>>

(* Stop, reset and panic leave nothing active; node play enters a node. *)
Restart(dest) ==
  /\ boundary = None
  /\ ClearAll
  /\ tails' = {}
  /\ logicalSpans' = {}
  /\ active' = dest
  /\ mainAttacks' = {}
  /\ UNCHANGED boundary

ObligingNext ==
  \/ \E k \in NoteKeys, a \in Attacks : Strike(k, a)
  \/ \E a \in Attacks : NoteEnds(a)
  \/ \E c \in Channels, s \in Spans : SpanStarts(c, s)
  \/ \E c \in Channels, s \in Spans : SpanEnds(c, s)
  \/ \E s \in Snapshots : ReachBoundary(s)
  \/ \E dest \in Nodes \union {None} : CrossBoundary(dest)
  \/ \E dest \in Nodes \union {None} : CrossPlainBoundary(dest)
  \/ \E dest \in Nodes : Jump(dest)
  \/ \E s \in Snapshots : TailCompletes(s)
  \/ \E dest \in Nodes \union {None} : Restart(dest)

PlaybackNext ==
  \/ ~obliging /\ Next /\ UNCHANGED <<caller, obliging>>
  \/ obliging /\ ObligingNext /\ UNCHANGED obliging

PlaybackSpec == PlaybackInit /\ [][PlaybackNext]_pvars

-----------------------------------------------------------------------------

EveryEntryReachable ==
  /\ \A k \in NoteKeys : noteOwners[k] # None => noteOwners[k].scope \in LiveScopes
  /\ \A p \in PedalKeys : activeSpans[p] # None => activeSpans[p] \in LiveScopes
  /\ tails = {s \in Snapshots : snapshotSource[s] # None}
PedalNeverStuck ==
  \A c \in Channels : cc64[c] = PedalValueDown => \E p \in logicalSpans : p[1] = c

(* Under a caller that keeps its obligations nothing is orphaned: every     *)
(* owned note and held span belongs to the active node's main or to an open *)
(* tail whose source is on record, so a vertical jump or the tail's         *)
(* retirement can still end it (the stuck-note outcome that the comment of  *)
(* transfer_main_to_pickdown_tail() warns of, midi_ownership.cpp:82).       *)
ObligedEntriesAreReachable == obliging => EveryEntryReachable

(* Under such a caller CC64 is never left down with no logical span to lift *)
(* it again (pedal_down(), pedal_up(), midi_ownership.cpp:131).             *)
ObligedPedalIsNeverStuck == obliging => PedalNeverStuck

(* A vertical jump silences exactly what the source's main region struck   *)
(* since it was entered: a note that crossed a boundary is spared even     *)
(* when a cycle has made its own source node active again.                 *)
JumpCutsExactlyMain ==
  [][(\E dest \in Nodes : Jump(dest)) =>
       \A k \in NoteKeys :
         sounding'[k] = IF sounding[k] \in mainAttacks THEN None ELSE sounding[k]]_pvars
=============================================================================
