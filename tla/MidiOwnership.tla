---------------------------- MODULE MidiOwnership ----------------------------
(***************************************************************************)
(* MidiOwnershipTracker (midi_ownership.hpp/.cpp): which attack owns each  *)
(* (channel, pitch) and which logical pedal spans hold each channel's      *)
(* sustain pedal down.                                                     *)
(*                                                                         *)
(* The tracker emits nothing itself: every mutating method returns the     *)
(* record of what changed and the caller sends the messages.  That record  *)
(* is modelled by its effect on a receiver, `sounding' and `cc64', which   *)
(* sees nothing else; so a transition the tracker fails to report (or      *)
(* reports twice) shows up as a receiver that disagrees with the tracker.  *)
(*                                                                         *)
(* The calls are unconstrained here: any scope, any snapshot id (stale and *)
(* unknown ones included), any order.  MidiPlayback adds the caller's      *)
(* documented obligations.                                                 *)
(***************************************************************************)
EXTENDS Integers, FiniteSets

CONSTANTS
  Channels,   \* MIDI channels
  Pitches,    \* MIDI pitches
  Spans,      \* ids of the notated pedal spans
  Nodes,      \* graph nodes
  Attacks,    \* MidiAttackId values generate() may mint
  Snapshots,  \* PickdownTailSnapshotId values generate() may mint
  None        \* std::nullopt, or no entry in a map

NoteKeys  == Channels \X Pitches
PedalKeys == Channels \X Spans

MainScope(n) == [region |-> "main", of |-> n]
TailScope(s) == [region |-> "pickdown_tail", of |-> s]
Scopes == [region : {"main"}, of : Nodes]
            \union [region : {"pickdown_tail"}, of : Snapshots]
(* The CC64 values a caller sends for kBecameInactive and kBecameActive. *)
PedalValueUp   == 0
PedalValueDown == 127

OwnedNotes == [attack : Attacks, scope : Scopes]

ASSUME SpansFinite == IsFiniteSet(Spans)
ASSUME IdsAreTyped == Attacks \intersect Snapshots = {}   \* two StrongId types
ASSUME NoneIsFresh == None \notin OwnedNotes \union NoteKeys \union Scopes \union Nodes \union Attacks

VARIABLES
  noteOwners,      \* note_owners_
  attackLookup,    \* attack_lookup_
  activeSpans,     \* active_pedal_spans_
  pedalCount,      \* pedal_active_count_
  snapshotSource,  \* snapshot_source_node_
  minted,          \* ids generate() has already returned (it never repeats one)
  sounding,        \* receiver: the attack last switched on and not yet off
  cc64             \* receiver: the last CC64 value sent on each channel

tracker  == <<noteOwners, attackLookup, activeSpans, pedalCount, snapshotSource, minted>>
receiver == <<sounding, cc64>>
vars     == <<tracker, receiver>>

(* Spans recorded active on channel c, whatever their scope. *)
Held(c) == {s \in Spans : activeSpans[<<c, s>>] # None}

Init ==
  /\ noteOwners     = [k \in NoteKeys  |-> None]
  /\ attackLookup   = [a \in Attacks   |-> None]
  /\ activeSpans    = [p \in PedalKeys |-> None]
  /\ pedalCount     = [c \in Channels  |-> 0]
  /\ snapshotSource = [s \in Snapshots |-> None]
  /\ minted         = {}
  /\ sounding       = [k \in NoteKeys  |-> None]
  /\ cc64           = [c \in Channels  |-> PedalValueUp]

-----------------------------------------------------------------------------
(* Boundary operations *)

BeginPickdownTail(n, s) ==
  /\ s \notin minted
  /\ minted' = minted \union {s}
  /\ snapshotSource' = [snapshotSource EXCEPT ![s] = n]
  /\ UNCHANGED <<noteOwners, attackLookup, activeSpans, pedalCount, receiver>>

(* The scope an entry has after transfer_main_to_pickdown_tail(n, s). *)
Rescoped(scope, n, s) == IF scope = MainScope(n) THEN TailScope(s) ELSE scope

(* Mutants of the transfer: the notes, or the spans, keep their scope. *)
TransferNotes_Omitted(n, s) == noteOwners' = noteOwners
TransferSpans_Omitted(n, s) == activeSpans' = activeSpans

TransferNotes(n, s) ==
  noteOwners' = [k \in NoteKeys |->
    IF noteOwners[k] = None THEN None
    ELSE [noteOwners[k] EXCEPT !.scope = Rescoped(@, n, s)]]

TransferSpans(n, s) ==
  activeSpans' = [p \in PedalKeys |->
    IF activeSpans[p] = None THEN None ELSE Rescoped(activeSpans[p], n, s)]

TransferMainToPickdownTail(n, s) ==
  /\ TransferNotes(n, s)
  /\ TransferSpans(n, s)
  /\ UNCHANGED <<attackLookup, pedalCount, snapshotSource, minted, receiver>>

-----------------------------------------------------------------------------
(* Notes: a fresh attack takes its key over; `superseded' is the note-off  *)
(* the caller sends before the note-on.                                    *)

(* Mutant of AttackNote: an attack id is handed out twice. *)
AttackNote_ReusesId(k, scope, a) ==
  /\ attackLookup[a] = None
  /\ minted' = minted \union {a}
  /\ noteOwners' = [noteOwners EXCEPT ![k] = [attack |-> a, scope |-> scope]]
  /\ attackLookup' = [b \in Attacks |->
       CASE b = a -> k
         [] b # a /\ noteOwners[k] # None /\ noteOwners[k].attack = b -> None
         [] OTHER -> attackLookup[b]]
  /\ sounding' = [sounding EXCEPT ![k] = a]
  /\ UNCHANGED <<activeSpans, pedalCount, snapshotSource, cc64>>

AttackNote(k, scope, a) ==
  /\ a \notin minted
  /\ minted' = minted \union {a}
  /\ noteOwners' = [noteOwners EXCEPT ![k] = [attack |-> a, scope |-> scope]]
  /\ attackLookup' = [b \in Attacks |->
       CASE b = a -> k
         [] b # a /\ noteOwners[k] # None /\ noteOwners[k].attack = b -> None
         [] OTHER -> attackLookup[b]]
  /\ sounding' = [sounding EXCEPT ![k] = a]
  /\ UNCHANGED <<activeSpans, pedalCount, snapshotSource, cc64>>

(* kEmitsNoteOff: a is still the owner of its pitch. *)
StillOwns(a) ==
  /\ attackLookup[a] # None
  /\ noteOwners[attackLookup[a]] # None
  /\ noteOwners[attackLookup[a]].attack = a

(* Mutant of ReleaseNote: the note-off is missing from the record. *)
ReleaseNote_Unreported(a) ==
  /\ attackLookup' = [attackLookup EXCEPT ![a] = None]
  /\ noteOwners' = IF StillOwns(a) THEN [noteOwners EXCEPT ![attackLookup[a]] = None] ELSE noteOwners
  /\ UNCHANGED <<activeSpans, pedalCount, snapshotSource, minted, receiver>>

ReleaseNote(a) ==
  /\ attackLookup' = [attackLookup EXCEPT ![a] = None]
  /\ IF StillOwns(a)
     THEN /\ noteOwners' = [noteOwners EXCEPT ![attackLookup[a]] = None]
          /\ sounding'   = [sounding   EXCEPT ![attackLookup[a]] = None]
     ELSE UNCHANGED <<noteOwners, sounding>>
  /\ UNCHANGED <<activeSpans, pedalCount, snapshotSource, minted, cc64>>

-----------------------------------------------------------------------------
(* Pedals: CC64 is sent only on the 0 -> 1 and N -> 0 transitions of the   *)
(* channel's count.                                                        *)

(* Mutants of PedalDown: a span that is already down is counted again; the *)
(* message goes out with the second span instead of the first.             *)
PedalDown_CountsTwice(c, s, scope) ==
  /\ activeSpans' = [activeSpans EXCEPT ![<<c, s>>] = scope]
  /\ pedalCount'  = [pedalCount EXCEPT ![c] = @ + 1]
  /\ cc64' = IF pedalCount[c] = 0 THEN [cc64 EXCEPT ![c] = PedalValueDown] ELSE cc64
  /\ UNCHANGED <<noteOwners, attackLookup, snapshotSource, minted, sounding>>

PedalDown_OffByOne(c, s, scope) ==
  /\ IF activeSpans[<<c, s>>] # None
     THEN UNCHANGED <<activeSpans, pedalCount, cc64>>
     ELSE /\ activeSpans' = [activeSpans EXCEPT ![<<c, s>>] = scope]
          /\ pedalCount'  = [pedalCount EXCEPT ![c] = @ + 1]
          /\ cc64' = IF pedalCount[c] = 1 THEN [cc64 EXCEPT ![c] = PedalValueDown] ELSE cc64
  /\ UNCHANGED <<noteOwners, attackLookup, snapshotSource, minted, sounding>>

PedalDown(c, s, scope) ==
  /\ IF activeSpans[<<c, s>>] # None
     THEN UNCHANGED <<activeSpans, pedalCount, cc64>>
     ELSE /\ activeSpans' = [activeSpans EXCEPT ![<<c, s>>] = scope]
          /\ pedalCount'  = [pedalCount EXCEPT ![c] = @ + 1]
          /\ cc64' = IF pedalCount[c] = 0 THEN [cc64 EXCEPT ![c] = PedalValueDown] ELSE cc64
  /\ UNCHANGED <<noteOwners, attackLookup, snapshotSource, minted, sounding>>

(* Mutant of PedalUp: every release of a span sends the message. *)
PedalUp_AlwaysEmits(c, s) ==
  /\ IF activeSpans[<<c, s>>] = None
     THEN UNCHANGED <<activeSpans, pedalCount, cc64>>
     ELSE /\ activeSpans' = [activeSpans EXCEPT ![<<c, s>>] = None]
          /\ pedalCount'  = [pedalCount EXCEPT ![c] = @ - 1]
          /\ cc64' = [cc64 EXCEPT ![c] = PedalValueUp]
  /\ UNCHANGED <<noteOwners, attackLookup, snapshotSource, minted, sounding>>

PedalUp(c, s) ==
  /\ IF activeSpans[<<c, s>>] = None
     THEN UNCHANGED <<activeSpans, pedalCount, cc64>>
     ELSE /\ activeSpans' = [activeSpans EXCEPT ![<<c, s>>] = None]
          /\ pedalCount'  = [pedalCount EXCEPT ![c] = @ - 1]
          /\ cc64' = IF pedalCount[c] = 1 THEN [cc64 EXCEPT ![c] = PedalValueUp] ELSE cc64
  /\ UNCHANGED <<noteOwners, attackLookup, snapshotSource, minted, sounding>>

-----------------------------------------------------------------------------
(* Lifecycle: release_where() drops every entry whose scope matches, and   *)
(* reports the dropped notes and the channels whose count reached zero.    *)

ReleasedKeys(matching) ==
  {k \in NoteKeys : noteOwners[k] # None /\ noteOwners[k].scope \in matching}

ReleasedSpans(c, matching) == {s \in Held(c) : activeSpans[<<c, s>>] \in matching}

ReleaseWhere(matching) ==
  LET keys == ReleasedKeys(matching)
      left(c) == pedalCount[c] - Cardinality(ReleasedSpans(c, matching))
  IN /\ noteOwners' = [k \in NoteKeys |-> IF k \in keys THEN None ELSE noteOwners[k]]
     /\ attackLookup' = [a \in Attacks |->
          IF \E k \in keys : noteOwners[k].attack = a THEN None ELSE attackLookup[a]]
     /\ activeSpans' = [p \in PedalKeys |->
          IF activeSpans[p] # None /\ activeSpans[p] \in matching THEN None ELSE activeSpans[p]]
     /\ pedalCount' = [c \in Channels |-> left(c)]
     /\ sounding' = [k \in NoteKeys |-> IF k \in keys THEN None ELSE sounding[k]]
     /\ cc64' = [c \in Channels |->
          IF ReleasedSpans(c, matching) # {} /\ left(c) = 0 THEN PedalValueUp ELSE cc64[c]]

VerticalJump(n) ==
  /\ ReleaseWhere({MainScope(n)})
  /\ UNCHANGED <<snapshotSource, minted>>

(* clear_all() (stop, reset, node play) and panic(): everything goes. *)
ClearAll ==
  /\ ReleaseWhere(Scopes)
  /\ snapshotSource' = [s \in Snapshots |-> None]
  /\ UNCHANGED minted

RetirePickdownTailSnapshot(s) ==
  /\ ReleaseWhere({TailScope(s)})
  /\ snapshotSource' = [snapshotSource EXCEPT ![s] = None]
  /\ UNCHANGED minted

-----------------------------------------------------------------------------
Next ==
  \/ \E n \in Nodes, s \in Snapshots : BeginPickdownTail(n, s)
  \/ \E n \in Nodes, s \in Snapshots : TransferMainToPickdownTail(n, s)
  \/ \E k \in NoteKeys, scope \in Scopes, a \in Attacks : AttackNote(k, scope, a)
  \/ \E a \in Attacks : ReleaseNote(a)
  \/ \E c \in Channels, s \in Spans, scope \in Scopes : PedalDown(c, s, scope)
  \/ \E c \in Channels, s \in Spans : PedalUp(c, s)
  \/ \E n \in Nodes : VerticalJump(n)
  \/ ClearAll
  \/ \E s \in Snapshots : RetirePickdownTailSnapshot(s)

Spec == Init /\ [][Next]_vars

-----------------------------------------------------------------------------
(* Types of the tracker's maps and of the receiver. *)
TypeOK ==
  /\ noteOwners     \in [NoteKeys  -> OwnedNotes \union {None}]
  /\ attackLookup   \in [Attacks   -> NoteKeys \union {None}]
  /\ activeSpans    \in [PedalKeys -> Scopes \union {None}]
  /\ pedalCount     \in [Channels  -> Nat]
  /\ snapshotSource \in [Snapshots -> Nodes \union {None}]
  /\ minted         \subseteq Attacks \union Snapshots
  /\ sounding       \in [NoteKeys  -> Attacks \union {None}]
  /\ cc64           \in [Channels  -> {PedalValueUp, PedalValueDown}]

(* note_owners_ and attack_lookup_ are two maps updated by hand in four    *)
(* places (attack_note, release_note, release_where's loop, retrigger);    *)
(* they must stay inverse to each other, or a release reaches the wrong    *)
(* note or an erased entry leaks.                                          *)
LookupIsInverse ==
  /\ \A k \in NoteKeys : noteOwners[k] # None =>
       attackLookup[noteOwners[k].attack] = k
  /\ \A a \in Attacks : attackLookup[a] # None =>
       /\ noteOwners[attackLookup[a]] # None
       /\ noteOwners[attackLookup[a]].attack = a

(* The per-channel counter is maintained by increments and decrements      *)
(* while the span map is the truth: they agree, so the unsigned counter    *)
(* never wraps below zero and the logical OR it stands for is exact.       *)
PedalCountExact ==
  \A c \in Channels : pedalCount[c] = Cardinality(Held(c))

(* Whatever calls are made, a receiver that acts on the returned records   *)
(* alone hears exactly the notes the tracker says are owned: no note is    *)
(* left stuck and none is cut that is still owned.                         *)
ReceiverHearsOwners ==
  \A k \in NoteKeys :
    sounding[k] = IF noteOwners[k] = None THEN None ELSE noteOwners[k].attack

(* CC64 at the receiver is the logical OR of the spans held on the channel *)
(* (docs/plan/README.md: "Overlapping CC64 pedal spans combine as logical  *)
(* OR per track/channel").                                                 *)
PedalIsLogicalOr ==
  \A c \in Channels :
    cc64[c] = IF Held(c) = {} THEN PedalValueUp ELSE PedalValueDown

(* Once an attack has been cut (released, superseded or swept up by a      *)
(* lifecycle call) nothing makes it sound again and its late release is    *)
(* suppressed: no later note-off is ever sent in its name.                 *)
CutAttacksStaySilent ==
  [][\A a \in Attacks :
       (a \in minted /\ \A k \in NoteKeys : sounding[k] # a)
         => \A k \in NoteKeys : sounding'[k] # a]_vars
-----------------------------------------------------------------------------
(* The tracker implements MidiStream: every call is, to a listener, one    *)
(* note-on (a retrigger included), one press, the end of some notes and    *)
(* spans at one instant, or nothing at all.                                *)
Stream == INSTANCE MidiStream WITH
  Up     <- PedalValueUp,
  Down   <- PedalValueDown,
  struck <- minted \intersect Attacks,
  held   <- {p \in PedalKeys : activeSpans[p] # None}

ImplementsStream == Stream!Spec
=============================================================================
