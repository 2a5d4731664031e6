------------------------ MODULE MidiOwnership_proofs ------------------------
(***************************************************************************)
(* Proofs about MidiOwnershipTracker for any channels, pitches, spans,     *)
(* nodes and ids, and for a caller that may make any call at any time.     *)
(*                                                                         *)
(* The note side and the pedal side of the tracker do not touch each       *)
(* other, so the inductive invariant is split into NoteInv and PedalInv.   *)
(* NoteInv is LookupIsInverse and ReceiverHearsOwners strengthened by      *)
(* OwnersMinted: without it a "fresh" attack id could collide with an      *)
(* owner of another key, and the retrigger would erase the wrong entry.    *)
(* The last section is about the caller of MidiPlayback that keeps its     *)
(* obligations.                                                            *)
(***************************************************************************)
EXTENDS MidiPlayback, FiniteSetTheorems, TLAPS

(* Every id in use was handed out by generate(). *)
OwnersMinted ==
  \A k \in NoteKeys : noteOwners[k] # None => noteOwners[k].attack \in minted

NoteInv  == LookupIsInverse /\ ReceiverHearsOwners /\ OwnersMinted
PedalInv == PedalCountExact /\ PedalIsLogicalOr
IInv     == TypeOK /\ NoteInv /\ PedalInv

-----------------------------------------------------------------------------
(* Types *)

(* ReleaseWhere counts down by the number of spans it drops. *)
LEMMA HeldFinite ==
  ASSUME NEW c \in Channels
  PROVE  IsFiniteSet(Held(c)) /\ Cardinality(Held(c)) \in Nat
<1>1. Held(c) \in SUBSET Spans
  BY DEF Held
<1>2. IsFiniteSet(Held(c))
  BY <1>1, SpansFinite, FS_Subset
<1> QED
  BY <1>2, FS_CardinalityType

(* Taking one span away lowers the count of its channel by one.            *)
LEMMA ReleaseCount ==
  ASSUME NEW c \in Channels, NEW matching, PedalCountExact, TypeOK
  PROVE  LET left == Held(c) \ ReleasedSpans(c, matching)
         IN  /\ IsFiniteSet(left)
             /\ Cardinality(left) \in Nat
             /\ pedalCount[c] - Cardinality(ReleasedSpans(c, matching)) = Cardinality(left)
<1> DEFINE R == ReleasedSpans(c, matching)
<1>1. R \in SUBSET Held(c) /\ Held(c) \cap R = R
  BY DEF ReleasedSpans
<1>2. IsFiniteSet(R) /\ Cardinality(R) \in Nat
  BY <1>1, HeldFinite, FS_Subset, FS_CardinalityType
<1>3. /\ IsFiniteSet(Held(c) \ R)
      /\ Cardinality(Held(c) \ R) = Cardinality(Held(c)) - Cardinality(Held(c) \cap R)
  BY HeldFinite, FS_Difference
<1>4. Cardinality(Held(c) \ R) \in Nat
  BY <1>3, FS_CardinalityType
<1> QED
  BY <1>1, <1>2, <1>3, <1>4 DEF PedalCountExact

(* Scopes compared by the tracker are of one type.                         *)
LEMMA ScopeTypes ==
  /\ \A n \in Nodes : MainScope(n) \in Scopes
  /\ \A s \in Snapshots : TailScope(s) \in Scopes
  /\ \A sc \in Scopes, n \in Nodes, s \in Snapshots : Rescoped(sc, n, s) \in Scopes
BY DEF MainScope, TailScope, Scopes, Rescoped

(* The empty tracker is well typed.                                        *)
LEMMA TypeInit == Init => TypeOK
BY DEF Init, TypeOK

(* Releasing a set of notes and spans keeps the types.                     *)
LEMMA TypeRelease ==
  ASSUME TypeOK, PedalCountExact, NEW matching, ReleaseWhere(matching)
  PROVE  /\ noteOwners'   \in [NoteKeys  -> OwnedNotes \union {None}]
         /\ attackLookup' \in [Attacks   -> NoteKeys \union {None}]
         /\ activeSpans'  \in [PedalKeys -> Scopes \union {None}]
         /\ pedalCount'   \in [Channels  -> Nat]
         /\ sounding'     \in [NoteKeys  -> Attacks \union {None}]
         /\ cc64'         \in [Channels  -> {PedalValueUp, PedalValueDown}]
<1>1. pedalCount' \in [Channels -> Nat]
  BY ReleaseCount DEF ReleaseWhere
<1>2. cc64' \in [Channels -> {PedalValueUp, PedalValueDown}]
  BY DEF ReleaseWhere, TypeOK
<1> QED
  BY <1>1, <1>2 DEF ReleaseWhere, TypeOK

(* Every call keeps the types.                                             *)
LEMMA TypeStep ==
  ASSUME TypeOK, PedalInv, [Next]_vars
  PROVE  TypeOK'
<1> USE DEF TypeOK, receiver
<1>1. ASSUME NEW n \in Nodes, NEW s \in Snapshots, BeginPickdownTail(n, s)
      PROVE  TypeOK'
  BY <1>1 DEF BeginPickdownTail
<1>2. ASSUME NEW n \in Nodes, NEW s \in Snapshots, TransferMainToPickdownTail(n, s)
      PROVE  TypeOK'
  <2>1. noteOwners' \in [NoteKeys -> OwnedNotes \union {None}]
    BY <1>2, ScopeTypes DEF TransferMainToPickdownTail, TransferNotes, OwnedNotes
  <2>2. activeSpans' \in [PedalKeys -> Scopes \union {None}]
    BY <1>2, ScopeTypes DEF TransferMainToPickdownTail, TransferSpans
  <2> QED
    BY <1>2, <2>1, <2>2 DEF TransferMainToPickdownTail
<1>3. ASSUME NEW k \in NoteKeys, NEW scope \in Scopes, NEW a \in Attacks, AttackNote(k, scope, a)
      PROVE  TypeOK'
  BY <1>3 DEF AttackNote, OwnedNotes
<1>4. ASSUME NEW a \in Attacks, ReleaseNote(a)
      PROVE  TypeOK'
  BY <1>4 DEF ReleaseNote
<1>5. ASSUME NEW c \in Channels, NEW s \in Spans, NEW scope \in Scopes, PedalDown(c, s, scope)
      PROVE  TypeOK'
  BY <1>5 DEF PedalDown, PedalKeys
<1>6. ASSUME NEW c \in Channels, NEW s \in Spans, PedalUp(c, s)
      PROVE  TypeOK'
  <2>1. CASE activeSpans[<<c, s>>] = None
    BY <1>6, <2>1 DEF PedalUp
  <2>2. CASE activeSpans[<<c, s>>] # None
    <3>1. s \in Held(c)
      BY <2>2 DEF Held
    <3>2. Cardinality(Held(c)) # 0
      BY <3>1, HeldFinite, FS_EmptySet
    <3>3. pedalCount[c] - 1 \in Nat
      BY <3>2, HeldFinite DEF PedalInv, PedalCountExact
    <3> QED
      BY <1>6, <2>2, <3>3 DEF PedalUp, PedalKeys
  <2> QED
    BY <2>1, <2>2
<1>7. ASSUME NEW n \in Nodes, VerticalJump(n)
      PROVE  TypeOK'
  BY <1>7, TypeRelease DEF VerticalJump, PedalInv
<1>8. ASSUME ClearAll
      PROVE  TypeOK'
  BY <1>8, TypeRelease DEF ClearAll, PedalInv
<1>9. ASSUME NEW s \in Snapshots, RetirePickdownTailSnapshot(s)
      PROVE  TypeOK'
  BY <1>9, TypeRelease DEF RetirePickdownTailSnapshot, PedalInv
<1>10. CASE UNCHANGED vars
  BY <1>10 DEF vars, tracker
<1> QED
  BY <1>1, <1>2, <1>3, <1>4, <1>5, <1>6, <1>7, <1>8, <1>9, <1>10 DEF Next
-----------------------------------------------------------------------------
(* Notes *)

(* The empty tracker owns nothing and nothing sounds.                      *)
LEMMA NoteInit == Init => NoteInv
BY NoneIsFresh DEF Init, NoteInv, LookupIsInverse, ReceiverHearsOwners, OwnersMinted

(* Releasing owned notes keeps the maps inverse and the receiver in step.  *)
LEMMA NoteRelease ==
  ASSUME TypeOK, NoteInv, NEW matching, ReleaseWhere(matching), UNCHANGED minted
  PROVE  NoteInv'
<1> USE DEF NoteInv, TypeOK
<1>1. LookupIsInverse'
  <2>1. ASSUME NEW k \in NoteKeys, noteOwners'[k] # None
        PROVE  attackLookup'[noteOwners'[k].attack] = k
    <3>1. noteOwners'[k] = noteOwners[k] /\ k \notin ReleasedKeys(matching)
      BY <2>1 DEF ReleaseWhere
    <3>2. noteOwners[k].attack \in Attacks /\ attackLookup[noteOwners[k].attack] = k
      BY <2>1, <3>1 DEF LookupIsInverse, OwnedNotes
    <3>3. \A j \in ReleasedKeys(matching) : noteOwners[j].attack # noteOwners[k].attack
      BY <3>1, <3>2 DEF LookupIsInverse, ReleasedKeys
    <3> QED
      BY <3>1, <3>2, <3>3 DEF ReleaseWhere
  <2>2. ASSUME NEW a \in Attacks, attackLookup'[a] # None
        PROVE  noteOwners'[attackLookup'[a]] # None /\ noteOwners'[attackLookup'[a]].attack = a
    <3>1. attackLookup'[a] = attackLookup[a]
      BY <2>2 DEF ReleaseWhere
    <3>2. /\ attackLookup[a] \in NoteKeys
          /\ noteOwners[attackLookup[a]] # None
          /\ noteOwners[attackLookup[a]].attack = a
      BY <2>2, <3>1 DEF LookupIsInverse
    <3>3. attackLookup[a] \notin ReleasedKeys(matching)
      BY <2>2, <3>2 DEF ReleaseWhere
    <3> QED
      BY <3>1, <3>2, <3>3 DEF ReleaseWhere
  <2> QED
    BY <2>1, <2>2 DEF LookupIsInverse
<1>2. ReceiverHearsOwners'
  BY DEF ReceiverHearsOwners, ReleaseWhere
<1>3. OwnersMinted'
  BY DEF OwnersMinted, ReleaseWhere
<1> QED
  BY <1>1, <1>2, <1>3

(* So does an attack, which first cuts whoever owned the key.              *)
LEMMA NoteAttack ==
  ASSUME TypeOK, NoteInv,
         NEW k \in NoteKeys, NEW scope \in Scopes, NEW a \in Attacks, AttackNote(k, scope, a)
  PROVE  NoteInv'
<1> USE DEF NoteInv, TypeOK
<1>1. noteOwners' = [noteOwners EXCEPT ![k] = [attack |-> a, scope |-> scope]]
  BY DEF AttackNote
<1>2. \A j \in NoteKeys : noteOwners[j] # None => noteOwners[j].attack # a
  BY DEF AttackNote, OwnersMinted
<1>3. [attack |-> a, scope |-> scope] # None
  BY NoneIsFresh DEF OwnedNotes
<1>4. LookupIsInverse'
  <2>1. ASSUME NEW j \in NoteKeys, noteOwners'[j] # None
        PROVE  attackLookup'[noteOwners'[j].attack] = j
    <3>1. CASE j = k
      BY <1>1, <3>1 DEF AttackNote
    <3>2. CASE j # k
      <4>1. noteOwners'[j] = noteOwners[j] /\ noteOwners[j].attack \in Attacks
        BY <1>1, <2>1, <3>2 DEF OwnedNotes
      <4>2. attackLookup[noteOwners[j].attack] = j
        BY <2>1, <4>1 DEF LookupIsInverse
      <4>3. noteOwners[k] # None => noteOwners[k].attack # noteOwners[j].attack
        BY <2>1, <4>1, <4>2, <3>2 DEF LookupIsInverse
      <4> QED
        BY <1>2, <2>1, <4>1, <4>2, <4>3 DEF AttackNote
    <3> QED
      BY <3>1, <3>2
  <2>2. ASSUME NEW b \in Attacks, attackLookup'[b] # None
        PROVE  noteOwners'[attackLookup'[b]] # None /\ noteOwners'[attackLookup'[b]].attack = b
    <3>1. CASE b = a
      BY <1>1, <1>3, <3>1 DEF AttackNote
    <3>2. CASE b # a
      <4>1. /\ attackLookup'[b] = attackLookup[b]
            /\ ~(noteOwners[k] # None /\ noteOwners[k].attack = b)
        BY <2>2, <3>2 DEF AttackNote
      <4>2. /\ attackLookup[b] \in NoteKeys
            /\ noteOwners[attackLookup[b]] # None
            /\ noteOwners[attackLookup[b]].attack = b
        BY <2>2, <4>1 DEF LookupIsInverse
      <4>3. attackLookup[b] # k
        BY <4>1, <4>2
      <4> QED
        BY <1>1, <4>1, <4>2, <4>3
    <3> QED
      BY <3>1, <3>2
  <2> QED
    BY <2>1, <2>2 DEF LookupIsInverse
<1>5. ReceiverHearsOwners'
  BY <1>1, <1>3 DEF ReceiverHearsOwners, AttackNote
<1>6. OwnersMinted'
  BY <1>1 DEF OwnersMinted, AttackNote
<1> QED
  BY <1>4, <1>5, <1>6

(* So does every call.                                                     *)
LEMMA NoteStep ==
  ASSUME TypeOK, NoteInv, [Next]_vars
  PROVE  NoteInv'
<1> USE DEF NoteInv, TypeOK
<1>1. ASSUME UNCHANGED <<noteOwners, attackLookup, sounding>>, minted \subseteq minted'
      PROVE  NoteInv'
  BY <1>1 DEF LookupIsInverse, ReceiverHearsOwners, OwnersMinted
<1>2. ASSUME NEW n \in Nodes, NEW s \in Snapshots, BeginPickdownTail(n, s)
      PROVE  NoteInv'
  BY <1>1, <1>2 DEF BeginPickdownTail, receiver
<1>3. ASSUME NEW n \in Nodes, NEW s \in Snapshots, TransferMainToPickdownTail(n, s)
      PROVE  NoteInv'
  <2>1. \A k \in NoteKeys :
          /\ noteOwners'[k] # None <=> noteOwners[k] # None
          /\ noteOwners[k] # None => noteOwners'[k].attack = noteOwners[k].attack
    BY <1>3, NoneIsFresh, ScopeTypes, SMTT(30) DEF TransferMainToPickdownTail, TransferNotes, OwnedNotes
  <2> QED
    BY <1>3, <2>1
       DEF TransferMainToPickdownTail, LookupIsInverse, ReceiverHearsOwners, OwnersMinted, receiver
<1>4. ASSUME NEW a \in Attacks, ReleaseNote(a)
      PROVE  NoteInv'
  <2>1. CASE StillOwns(a)
    BY <1>4, <2>1 DEF ReleaseNote, StillOwns, LookupIsInverse, ReceiverHearsOwners, OwnersMinted
  <2>2. CASE ~StillOwns(a)
    <3>1. attackLookup[a] = None
      BY <2>2 DEF StillOwns, LookupIsInverse
    <3> QED
      BY <1>1, <1>4, <2>2, <3>1 DEF ReleaseNote
  <2> QED
    BY <2>1, <2>2
<1>5. ASSUME NEW c \in Channels, NEW s \in Spans, NEW scope \in Scopes, PedalDown(c, s, scope)
      PROVE  NoteInv'
  BY <1>1, <1>5 DEF PedalDown
<1>6. ASSUME NEW c \in Channels, NEW s \in Spans, PedalUp(c, s)
      PROVE  NoteInv'
  BY <1>1, <1>6 DEF PedalUp
<1>7. ASSUME NEW n \in Nodes, VerticalJump(n)
      PROVE  NoteInv'
  BY <1>7, NoteRelease DEF VerticalJump
<1>8. ASSUME ClearAll
      PROVE  NoteInv'
  BY <1>8, NoteRelease DEF ClearAll
<1>9. ASSUME NEW s \in Snapshots, RetirePickdownTailSnapshot(s)
      PROVE  NoteInv'
  BY <1>9, NoteRelease DEF RetirePickdownTailSnapshot
<1>10. CASE UNCHANGED vars
  BY <1>1, <1>10 DEF vars, tracker, receiver
<1> QED
  BY NoteAttack, <1>2, <1>3, <1>4, <1>5, <1>6, <1>7, <1>8, <1>9, <1>10 DEF Next
-----------------------------------------------------------------------------
(* Pedals *)

(* No span is held and every counter is zero.                              *)
LEMMA PedalInit == Init => PedalInv
<1> SUFFICES ASSUME Init PROVE PedalInv
  OBVIOUS
<1>1. \A c \in Channels : Held(c) = {}
  BY DEF Init, Held, PedalKeys
<1> QED
  BY <1>1, FS_EmptySet DEF Init, PedalInv, PedalCountExact, PedalIsLogicalOr

(* A step that leaves the set of held spans alone. *)
LEMMA PedalSameHeld ==
  ASSUME PedalInv, UNCHANGED <<pedalCount, cc64>>, \A c \in Channels : Held(c)' = Held(c)
  PROVE  PedalInv'
BY DEF PedalInv, PedalCountExact, PedalIsLogicalOr

(* Releasing spans lowers the counters by exactly those spans.             *)
LEMMA PedalRelease ==
  ASSUME TypeOK, PedalInv, NEW matching, ReleaseWhere(matching)
  PROVE  PedalInv'
<1> SUFFICES ASSUME NEW c \in Channels
             PROVE  /\ pedalCount'[c] = Cardinality(Held(c)')
                    /\ cc64'[c] = IF Held(c)' = {} THEN PedalValueUp ELSE PedalValueDown
  BY DEF PedalInv, PedalCountExact, PedalIsLogicalOr
<1> DEFINE R == ReleasedSpans(c, matching)
<1>1. Held(c)' = Held(c) \ R
  BY DEF ReleaseWhere, Held, ReleasedSpans, PedalKeys
<1>2. /\ IsFiniteSet(Held(c)')
      /\ pedalCount[c] - Cardinality(R) = Cardinality(Held(c)')
  BY <1>1, ReleaseCount DEF PedalInv
<1>3. pedalCount'[c] = Cardinality(Held(c)')
  BY <1>2 DEF ReleaseWhere
<1>4. Held(c)' = {} <=> pedalCount[c] - Cardinality(R) = 0
  BY <1>2, FS_EmptySet
<1>5. cc64'[c] = IF R # {} /\ pedalCount[c] - Cardinality(R) = 0 THEN PedalValueUp ELSE cc64[c]
  BY DEF ReleaseWhere
<1>6. cc64[c] = IF Held(c) = {} THEN PedalValueUp ELSE PedalValueDown
  BY DEF PedalInv, PedalIsLogicalOr
<1>7. cc64'[c] = IF Held(c)' = {} THEN PedalValueUp ELSE PedalValueDown
  <2>1. CASE R = {}
    BY <2>1, <1>1, <1>5, <1>6
  <2>2. CASE R # {}
    <3>1. Held(c) # {}
      BY <2>2 DEF ReleasedSpans
    <3> QED
      BY <2>2, <3>1, <1>4, <1>5, <1>6
  <2> QED
    BY <2>1, <2>2
<1> QED
  BY <1>3, <1>7

(* A new span raises its counter by one, and emits at the first.           *)
LEMMA PedalPress ==
  ASSUME TypeOK, PedalInv, NEW c \in Channels, NEW s \in Spans, NEW scope \in Scopes,
         PedalDown(c, s, scope)
  PROVE  PedalInv'
<1>1. CASE activeSpans[<<c, s>>] # None
  BY <1>1, PedalSameHeld DEF PedalDown, Held
<1>2. CASE activeSpans[<<c, s>>] = None
  <2>1. activeSpans' = [activeSpans EXCEPT ![<<c, s>>] = scope] /\ scope # None
    BY <1>2, NoneIsFresh DEF PedalDown
  <2>2. Held(c)' = Held(c) \cup {s} /\ s \notin Held(c)
    BY <1>2, <2>1 DEF Held, TypeOK, PedalKeys
  <2>3. \A d \in Channels : d # c => Held(d)' = Held(d)
    BY <2>1 DEF Held, TypeOK, PedalKeys
  <2>4. /\ Cardinality(Held(c)') = Cardinality(Held(c)) + 1
        /\ Held(c) = {} <=> Cardinality(Held(c)) = 0
    BY <2>2, HeldFinite, FS_AddElement, FS_EmptySet
  <2>5. pedalCount' = [pedalCount EXCEPT ![c] = @ + 1]
    BY <1>2 DEF PedalDown
  <2>6. cc64' = IF Held(c) = {} THEN [cc64 EXCEPT ![c] = PedalValueDown] ELSE cc64
    BY <1>2, <2>4 DEF PedalDown, PedalInv, PedalCountExact
  <2>7. PedalCountExact'
    BY <2>3, <2>4, <2>5 DEF PedalInv, PedalCountExact, TypeOK
  <2>8. PedalIsLogicalOr'
    BY <2>2, <2>3, <2>6 DEF PedalInv, PedalIsLogicalOr, TypeOK
  <2> QED
    BY <2>7, <2>8 DEF PedalInv
<1> QED
  BY <1>1, <1>2

(* A span lifted lowers its counter by one, and emits at the last.         *)
LEMMA PedalLift ==
  ASSUME TypeOK, PedalInv, NEW c \in Channels, NEW s \in Spans, PedalUp(c, s)
  PROVE  PedalInv'
<1>1. CASE activeSpans[<<c, s>>] = None
  BY <1>1, PedalSameHeld DEF PedalUp, Held
<1>2. CASE activeSpans[<<c, s>>] # None
  <2>1. activeSpans' = [activeSpans EXCEPT ![<<c, s>>] = None]
    BY <1>2 DEF PedalUp
  <2>2. Held(c)' = Held(c) \ {s} /\ s \in Held(c)
    BY <1>2, <2>1 DEF Held, TypeOK, PedalKeys
  <2>3. \A d \in Channels : d # c => Held(d)' = Held(d)
    BY <2>1 DEF Held, TypeOK, PedalKeys
  <2>4. /\ IsFiniteSet(Held(c)')
        /\ Cardinality(Held(c)') = Cardinality(Held(c)) - 1
    BY <2>2, HeldFinite, FS_RemoveElement
  <2>5. Held(c)' = {} <=> Cardinality(Held(c)) = 1
    BY <2>4, HeldFinite, FS_EmptySet
  <2>6. pedalCount' = [pedalCount EXCEPT ![c] = @ - 1]
    BY <1>2 DEF PedalUp
  <2>7. cc64' = IF Held(c)' = {} THEN [cc64 EXCEPT ![c] = PedalValueUp] ELSE cc64
    BY <1>2, <2>5 DEF PedalUp, PedalInv, PedalCountExact
  <2>8. PedalCountExact'
    BY <2>3, <2>4, <2>6 DEF PedalInv, PedalCountExact, TypeOK
  <2>9. PedalIsLogicalOr'
    BY <2>2, <2>3, <2>7 DEF PedalInv, PedalIsLogicalOr, TypeOK
  <2> QED
    BY <2>8, <2>9 DEF PedalInv
<1> QED
  BY <1>1, <1>2

(* Every call keeps the counters exact.                                    *)
LEMMA PedalStep ==
  ASSUME TypeOK, PedalInv, [Next]_vars
  PROVE  PedalInv'
<1>1. ASSUME UNCHANGED <<activeSpans, pedalCount, cc64>>
      PROVE  PedalInv'
  BY <1>1, PedalSameHeld DEF Held
<1>2. ASSUME NEW n \in Nodes, NEW s \in Snapshots, BeginPickdownTail(n, s)
      PROVE  PedalInv'
  BY <1>1, <1>2 DEF BeginPickdownTail, receiver
<1>3. ASSUME NEW n \in Nodes, NEW s \in Snapshots, TransferMainToPickdownTail(n, s)
      PROVE  PedalInv'
  <2>1. \A p \in PedalKeys : activeSpans'[p] # None <=> activeSpans[p] # None
    BY <1>3, NoneIsFresh, ScopeTypes DEF TransferMainToPickdownTail, TransferSpans, TypeOK
  <2>2. \A c \in Channels : Held(c)' = Held(c)
    BY <2>1 DEF Held, PedalKeys
  <2> QED
    BY <1>3, <2>2, PedalSameHeld DEF TransferMainToPickdownTail, receiver
<1>4. ASSUME NEW k \in NoteKeys, NEW scope \in Scopes, NEW a \in Attacks, AttackNote(k, scope, a)
      PROVE  PedalInv'
  BY <1>1, <1>4 DEF AttackNote
<1>5. ASSUME NEW a \in Attacks, ReleaseNote(a)
      PROVE  PedalInv'
  BY <1>1, <1>5 DEF ReleaseNote
<1>6. ASSUME NEW n \in Nodes, VerticalJump(n)
      PROVE  PedalInv'
  BY <1>6, PedalRelease DEF VerticalJump
<1>7. ASSUME ClearAll
      PROVE  PedalInv'
  BY <1>7, PedalRelease DEF ClearAll
<1>8. ASSUME NEW s \in Snapshots, RetirePickdownTailSnapshot(s)
      PROVE  PedalInv'
  BY <1>8, PedalRelease DEF RetirePickdownTailSnapshot
<1>9. CASE UNCHANGED vars
  BY <1>1, <1>9 DEF vars, tracker, receiver
<1> QED
  BY PedalPress, PedalLift, <1>2, <1>3, <1>4, <1>5, <1>6, <1>7, <1>8, <1>9 DEF Next

-----------------------------------------------------------------------------
(* The inductive invariant and what follows from it *)

(* Types, the two inverse maps, the exact pedal count and the receiver's   *)
(* agreement with the tracker, together inductive over every call.         *)
THEOREM Inductive == Spec => []IInv
<1>1. Init => IInv
  BY TypeInit, NoteInit, PedalInit DEF IInv
<1>2. IInv /\ [Next]_vars => IInv'
  BY TypeStep, NoteStep, PedalStep DEF IInv
<1> QED
  BY <1>1, <1>2, PTL DEF Spec

(* Every variable of the tracker keeps its type: in particular the pedal   *)
(* counters never go below zero.                                           *)
THEOREM TypeCorrect == Spec => []TypeOK
BY Inductive, PTL DEF IInv

(* note_owners_ and attack_lookup_ are inverse after any calls. *)
THEOREM LookupCorrect == Spec => []LookupIsInverse
BY Inductive, PTL DEF IInv, NoteInv

(* No call leaves a note stuck at the receiver or cuts an owned one. *)
THEOREM NoStuckNotes == Spec => []ReceiverHearsOwners
BY Inductive, PTL DEF IInv, NoteInv

(* The counter the logical OR is computed from never drifts from the map. *)
THEOREM PedalCountCorrect == Spec => []PedalCountExact
BY Inductive, PTL DEF IInv, PedalInv

(* CC64 at the receiver is the logical OR of the held spans. *)
THEOREM PedalCorrect == Spec => []PedalIsLogicalOr
BY Inductive, PTL DEF IInv, PedalInv

(* A cut attack never sounds again, whatever the caller does later. *)
THEOREM CutStaysCut == Spec => CutAttacksStaySilent
<1> DEFINE Cut == \A a \in Attacks :
             (a \in minted /\ \A k \in NoteKeys : sounding[k] # a)
               => \A k \in NoteKeys : sounding'[k] # a
<1>1. IInv /\ [Next]_vars => [Cut]_vars
  <2> SUFFICES ASSUME IInv, [Next]_vars,
                      NEW a \in Attacks, a \in minted, \A k \in NoteKeys : sounding[k] # a
               PROVE  \A k \in NoteKeys : sounding'[k] # a
    OBVIOUS
  <2> USE DEF receiver
  <2>1. a # None
    BY NoneIsFresh
  <2>2. ASSUME \A k \in NoteKeys : sounding'[k] \in {sounding[k], None}
        PROVE  \A k \in NoteKeys : sounding'[k] # a
    BY <2>1, <2>2
  <2>3. ASSUME NEW j \in NoteKeys, NEW scope \in Scopes, NEW b \in Attacks, AttackNote(j, scope, b)
        PROVE  \A k \in NoteKeys : sounding'[k] # a
    BY <2>3 DEF AttackNote, IInv, TypeOK
  <2>4. ASSUME NEW b \in Attacks, ReleaseNote(b)
        PROVE  \A k \in NoteKeys : sounding'[k] # a
    BY <2>2, <2>4 DEF ReleaseNote, IInv, TypeOK
  <2>5. ASSUME NEW matching, ReleaseWhere(matching)
        PROVE  \A k \in NoteKeys : sounding'[k] # a
    BY <2>2, <2>5 DEF ReleaseWhere
  <2>6. CASE UNCHANGED sounding
    BY <2>6
  <2> QED
    BY <2>3, <2>4, <2>5, <2>6
       DEF Next, BeginPickdownTail, TransferMainToPickdownTail, PedalDown, PedalUp,
           VerticalJump, ClearAll, RetirePickdownTailSnapshot, vars
<1> QED
  BY <1>1, Inductive, PTL DEF Spec, CutAttacksStaySilent
-----------------------------------------------------------------------------
(* Refinement *)

(* What a release says on the stream is what the abstract one allows.      *)
LEMMA StreamRelease ==
  ASSUME IInv, NEW matching, ReleaseWhere(matching), UNCHANGED minted, PedalInv'
  PROVE  Stream!LetGo
<1>1. {p \in PedalKeys : activeSpans'[p] # None} \subseteq {p \in PedalKeys : activeSpans[p] # None}
  BY DEF ReleaseWhere
<1>2. cc64' = [c \in Channels |-> cc64'[c]]
  BY DEF ReleaseWhere
<1>3. ASSUME NEW c \in Channels
      PROVE  cc64'[c] = IF \E s \in Spans : <<c, s>> \in {p \in PedalKeys : activeSpans'[p] # None}
                        THEN PedalValueDown ELSE PedalValueUp
  BY DEF PedalInv, PedalIsLogicalOr, Held, PedalKeys
<1>4. /\ sounding' = [k \in NoteKeys |-> sounding'[k]]
      /\ \A k \in NoteKeys : sounding'[k] \in {sounding[k], None}
  BY DEF ReleaseWhere
<1> QED
  BY <1>1, <1>2, <1>3, <1>4 DEF Stream!LetGo

(* Every call is a step of the abstract stream, or none.                   *)
LEMMA StreamStep ==
  ASSUME IInv, [Next]_vars
  PROVE  [Stream!Next]_Stream!vars
<1> USE DEF receiver
<1>0. IInv'
  BY TypeStep, NoteStep, PedalStep DEF IInv
<1>1. ASSUME UNCHANGED <<sounding, cc64>>, minted' \intersect Attacks = minted \intersect Attacks,
             \A p \in PedalKeys : activeSpans'[p] # None <=> activeSpans[p] # None
      PROVE  UNCHANGED Stream!vars
  BY <1>1 DEF Stream!vars
<1>2. ASSUME NEW n \in Nodes, NEW s \in Snapshots, BeginPickdownTail(n, s)
      PROVE  UNCHANGED Stream!vars
  <2>1. minted' \intersect Attacks = minted \intersect Attacks
    BY <1>2, IdsAreTyped DEF BeginPickdownTail
  <2> QED
    BY <1>1, <1>2, <2>1 DEF BeginPickdownTail
<1>3. ASSUME NEW n \in Nodes, NEW s \in Snapshots, TransferMainToPickdownTail(n, s)
      PROVE  UNCHANGED Stream!vars
  <2>1. \A p \in PedalKeys : activeSpans'[p] # None <=> activeSpans[p] # None
    BY <1>3, NoneIsFresh, ScopeTypes DEF TransferMainToPickdownTail, TransferSpans, IInv, TypeOK
  <2> QED
    BY <1>1, <1>3, <2>1 DEF TransferMainToPickdownTail
<1>4. ASSUME NEW k \in NoteKeys, NEW scope \in Scopes, NEW a \in Attacks, AttackNote(k, scope, a)
      PROVE  Stream!Strike(k, a)
  BY <1>4 DEF AttackNote, Stream!Strike
<1>5. ASSUME NEW a \in Attacks, ReleaseNote(a)
      PROVE  Stream!LetGo
  <2>1. /\ sounding' = [k \in NoteKeys |-> sounding'[k]]
        /\ \A k \in NoteKeys : sounding'[k] \in {sounding[k], None}
    BY <1>5 DEF ReleaseNote, IInv, TypeOK
  <2>2. cc64' = [c \in Channels |-> cc64'[c]]
    BY <1>5 DEF ReleaseNote, IInv, TypeOK
  <2>3. ASSUME NEW c \in Channels
        PROVE  cc64'[c] = IF \E s \in Spans : <<c, s>> \in {p \in PedalKeys : activeSpans'[p] # None}
                          THEN PedalValueDown ELSE PedalValueUp
    BY <1>0 DEF IInv, PedalInv, PedalIsLogicalOr, Held, PedalKeys
  <2> QED
    BY <1>5, <2>1, <2>2, <2>3 DEF ReleaseNote, Stream!LetGo
<1>6. ASSUME NEW c \in Channels, NEW s \in Spans, NEW scope \in Scopes, PedalDown(c, s, scope)
      PROVE  [Stream!Next]_Stream!vars
  <2>1. CASE activeSpans[<<c, s>>] # None
    BY <1>1, <1>6, <2>1 DEF PedalDown
  <2>2. CASE activeSpans[<<c, s>>] = None
    <3>1. activeSpans' = [activeSpans EXCEPT ![<<c, s>>] = scope] /\ scope # None
      BY <1>6, <2>2, NoneIsFresh DEF PedalDown
    <3>2. {p \in PedalKeys : activeSpans'[p] # None}
            = {p \in PedalKeys : activeSpans[p] # None} \union {<<c, s>>}
      BY <3>1 DEF PedalKeys, IInv, TypeOK
    <3>3. cc64' = [cc64 EXCEPT ![c] = PedalValueDown]
      <4>1. s \in Held(c)'
        BY <3>1 DEF Held, PedalKeys, IInv, TypeOK
      <4>2. cc64'[c] = PedalValueDown
        BY <1>0, <4>1 DEF IInv, PedalInv, PedalIsLogicalOr
      <4>3. cc64' = cc64 \/ cc64' = [cc64 EXCEPT ![c] = PedalValueDown]
        BY <1>6, <2>2 DEF PedalDown
      <4> QED
        BY <4>2, <4>3 DEF IInv, TypeOK
    <3>4. Stream!Press(c, s)
      BY <1>6, <3>2, <3>3 DEF PedalDown, Stream!Press
    <3> QED
      BY <3>4 DEF Stream!Next
  <2> QED
    BY <2>1, <2>2
<1>7. ASSUME NEW c \in Channels, NEW s \in Spans, PedalUp(c, s)
      PROVE  Stream!LetGo
  <2>1. {p \in PedalKeys : activeSpans'[p] # None} \subseteq {p \in PedalKeys : activeSpans[p] # None}
    BY <1>7 DEF PedalUp, IInv, TypeOK
  <2>2. cc64' = [d \in Channels |-> cc64'[d]]
    BY <1>7 DEF PedalUp, IInv, TypeOK
  <2>3. ASSUME NEW d \in Channels
        PROVE  cc64'[d] = IF \E t \in Spans : <<d, t>> \in {p \in PedalKeys : activeSpans'[p] # None}
                          THEN PedalValueDown ELSE PedalValueUp
    BY <1>0 DEF IInv, PedalInv, PedalIsLogicalOr, Held, PedalKeys
  <2>4. sounding' = [k \in NoteKeys |-> sounding'[k]]
    BY <1>7 DEF PedalUp, IInv, TypeOK
  <2> QED
    BY <1>7, <2>1, <2>2, <2>3, <2>4 DEF PedalUp, Stream!LetGo
<1>8. ASSUME NEW n \in Nodes, VerticalJump(n)
      PROVE  Stream!LetGo
  BY <1>0, <1>8, StreamRelease DEF VerticalJump, IInv
<1>9. ASSUME ClearAll
      PROVE  Stream!LetGo
  BY <1>0, <1>9, StreamRelease DEF ClearAll, IInv
<1>10. ASSUME NEW s \in Snapshots, RetirePickdownTailSnapshot(s)
      PROVE  Stream!LetGo
  BY <1>0, <1>10, StreamRelease DEF RetirePickdownTailSnapshot, IInv
<1>11. CASE UNCHANGED vars
  BY <1>1, <1>11 DEF vars, tracker
<1> QED
  BY <1>2, <1>3, <1>4, <1>5, <1>6, <1>7, <1>8, <1>9, <1>10, <1>11 DEF Next, Stream!Next

(* The tracker implements the abstract stream: notes alternate on and off  *)
(* per key and each attack sounds once; CC64 is down while a span is held. *)
THEOREM Refinement == Spec => ImplementsStream
<1>1. Init => Stream!Init
  BY DEF Init, Stream!Init, PedalKeys
<1>2. IInv /\ [Next]_vars => [Stream!Next]_Stream!vars
  BY StreamStep
<1> QED
  BY <1>1, <1>2, Inductive, PTL DEF Spec, ImplementsStream, Stream!Spec

-----------------------------------------------------------------------------
(* A caller that keeps its obligations *)

(* What the caller knows is of one type; an attack of main material was     *)
(* handed out.                                                              *)
CallerTyped ==
  /\ obliging \in BOOLEAN
  /\ active \in Nodes \union {None}
  /\ tails \subseteq Snapshots
  /\ boundary \in Snapshots \union {None}
  /\ mainAttacks \subseteq minted \intersect Attacks
  /\ logicalSpans \subseteq Channels \X Spans \X Scopes

(* Between the start of a tail and the transfer into it, the tail is open   *)
(* and its node still active.                                               *)
TransferIsOwed == boundary # None => boundary \in tails /\ active \in Nodes

(* What sounds was struck by main material since the active node was        *)
(* entered exactly when main owns it: a cycle that comes back to a node     *)
(* finds nothing in main scope that crossed its boundary before.            *)
MainIsRecent ==
  \A k \in NoteKeys : noteOwners[k] # None =>
    (noteOwners[k].attack \in mainAttacks
       <=> active # None /\ noteOwners[k].scope = MainScope(active))

(* A span that is held was started in the scope it is held in, and has not  *)
(* ended.                                                                   *)
SpansAreLogical ==
  \A c \in Channels, s \in Spans : activeSpans[<<c, s>>] # None =>
    <<c, s, activeSpans[<<c, s>>]>> \in logicalSpans

ObligedInv == TransferIsOwed /\ EveryEntryReachable /\ MainIsRecent /\ SpansAreLogical
CallerInv  == CallerTyped /\ (obliging => ObligedInv) /\ (~obliging => active = None)

(* Main scopes and tail scopes are told apart, and by what they are of.     *)
LEMMA ScopesDiffer ==
  /\ \A n, s : MainScope(n) # TailScope(s)
  /\ \A n, m : MainScope(n) = MainScope(m) => n = m
  /\ \A s, t : TailScope(s) = TailScope(t) => s = t
BY DEF MainScope, TailScope

(* Nothing is owned or held before playback.                                *)
LEMMA CallerInit == PlaybackInit => CallerInv
<1> SUFFICES ASSUME PlaybackInit PROVE CallerInv
  OBVIOUS
<1> USE DEF PlaybackInit, Init
<1>1. CallerTyped
  BY DEF CallerTyped
<1>2. \A c \in Channels, s \in Spans : activeSpans[<<c, s>>] = None
  BY DEF PedalKeys
<1>3. EveryEntryReachable
  BY DEF EveryEntryReachable
<1> QED
  BY <1>1, <1>2, <1>3 DEF CallerInv, ObligedInv, TransferIsOwed, MainIsRecent, SpansAreLogical

(* The scopes an obliging caller gives are scopes of the tracker, so that   *)
(* whatever it does is a call that the proofs above cover.                  *)
LEMMA ObligingCalls ==
  ASSUME CallerTyped, ObligingNext, TransferIsOwed
  PROVE  [Next]_vars
<1>1. LiveScopes \subseteq Scopes
  BY ScopeTypes DEF LiveScopes, CallerTyped
<1>2. \A s \in Spans : StartScopes(s) \subseteq Scopes
  BY ScopeTypes, NotatedMaterial DEF StartScopes, CallerTyped
<1>3. ASSUME NEW k \in NoteKeys, NEW a \in Attacks, Strike(k, a)
      PROVE  Next
  BY <1>1, <1>3 DEF Strike, Next
<1>4. ASSUME NEW a \in Attacks, NoteEnds(a)
      PROVE  Next
  BY <1>4 DEF NoteEnds, Next
<1>5. ASSUME NEW c \in Channels, NEW s \in Spans, SpanStarts(c, s)
      PROVE  Next
  BY <1>2, <1>5 DEF SpanStarts, Next
<1>6. ASSUME NEW c \in Channels, NEW s \in Spans, SpanEnds(c, s)
      PROVE  Next
  BY <1>6 DEF SpanEnds, Next
<1>7. ASSUME NEW s \in Snapshots, ReachBoundary(s)
      PROVE  Next
  BY <1>7, NotatedMaterial DEF ReachBoundary, Next
<1>8. ASSUME NEW dest, CrossBoundary(dest)
      PROVE  Next
  BY <1>8 DEF CrossBoundary, Next, CallerTyped, TransferIsOwed
<1>9. ASSUME NEW dest, CrossPlainBoundary(dest)
      PROVE  UNCHANGED vars
  BY <1>9 DEF CrossPlainBoundary
<1>10. ASSUME NEW dest, Jump(dest)
       PROVE  Next
  BY <1>10 DEF Jump, Next, CallerTyped
<1>11. ASSUME NEW s \in Snapshots, TailCompletes(s)
       PROVE  Next
  BY <1>11 DEF TailCompletes, Next
<1>12. ASSUME NEW dest, Restart(dest)
       PROVE  Next
  BY <1>12 DEF Restart, Next
<1> QED
  BY <1>3, <1>4, <1>5, <1>6, <1>7, <1>8, <1>9, <1>10, <1>11, <1>12 DEF ObligingNext

(* The caller's own knowledge keeps its type.                               *)
LEMMA CallerTypedStep ==
  ASSUME TypeOK, CallerTyped, ObligingNext, UNCHANGED obliging, TransferIsOwed
  PROVE  CallerTyped'
<1> USE DEF CallerTyped
<1>1. minted \subseteq minted' /\ UNCHANGED <<mainAttacks, logicalSpans, active, tails, boundary>>
        => CallerTyped'
  OBVIOUS
<1>2. ASSUME NEW k \in NoteKeys, NEW a \in Attacks, Strike(k, a)
      PROVE  CallerTyped'
  BY <1>2 DEF Strike, AttackNote
<1>3. ASSUME NEW a \in Attacks, NoteEnds(a)
      PROVE  CallerTyped'
  BY <1>3 DEF NoteEnds, ReleaseNote, caller
<1>4. ASSUME NEW c \in Channels, NEW s \in Spans, SpanStarts(c, s)
      PROVE  CallerTyped'
  <2>1. StartScopes(s) \subseteq Scopes
    BY ScopeTypes, NotatedMaterial DEF StartScopes
  <2>2. PICK scope \in StartScopes(s) : logicalSpans' = logicalSpans \union {<<c, s, scope>>}
    BY <1>4 DEF SpanStarts
  <2>3. minted' = minted
    BY <1>4 DEF SpanStarts, PedalDown
  <2> QED
    BY <1>4, <2>1, <2>2, <2>3 DEF SpanStarts
<1>5. ASSUME NEW c \in Channels, NEW s \in Spans, SpanEnds(c, s)
      PROVE  CallerTyped'
  BY <1>5 DEF SpanEnds, PedalUp
<1>6. ASSUME NEW s \in Snapshots, ReachBoundary(s)
      PROVE  CallerTyped'
  BY <1>6 DEF ReachBoundary, BeginPickdownTail
<1>7. ASSUME NEW dest \in Nodes \union {None}, CrossBoundary(dest)
      PROVE  CallerTyped'
  <2>1. logicalSpans' \subseteq Channels \X Spans \X Scopes
    BY <1>7, ScopeTypes DEF CrossBoundary, TransferIsOwed
  <2> QED
    BY <1>7, <2>1 DEF CrossBoundary, TransferMainToPickdownTail
<1>8. ASSUME NEW dest \in Nodes \union {None}, CrossPlainBoundary(dest)
      PROVE  CallerTyped'
  BY <1>8 DEF CrossPlainBoundary, vars, tracker
<1>9. ASSUME NEW dest \in Nodes, Jump(dest)
      PROVE  CallerTyped'
  BY <1>9 DEF Jump, VerticalJump
<1>10. ASSUME NEW s \in Snapshots, TailCompletes(s)
       PROVE  CallerTyped'
  BY <1>10 DEF TailCompletes, RetirePickdownTailSnapshot
<1>11. ASSUME NEW dest \in Nodes \union {None}, Restart(dest)
       PROVE  CallerTyped'
  BY <1>11 DEF Restart, ClearAll
<1> QED
  BY <1>2, <1>3, <1>4, <1>5, <1>6, <1>7, <1>8, <1>9, <1>10, <1>11 DEF ObligingNext


(* What a sweep leaves, it leaves as it was; what it takes matched.         *)
LEMMA Swept ==
  ASSUME TypeOK, NEW matching, ReleaseWhere(matching)
  PROVE  /\ \A k \in NoteKeys : noteOwners'[k] # None =>
              noteOwners'[k] = noteOwners[k] /\ noteOwners[k].scope \notin matching
         /\ \A p \in PedalKeys : activeSpans'[p] # None =>
              activeSpans'[p] = activeSpans[p] /\ activeSpans[p] \notin matching
<1>1. ASSUME NEW k \in NoteKeys, noteOwners'[k] # None
      PROVE  noteOwners'[k] = noteOwners[k] /\ noteOwners[k].scope \notin matching
  BY <1>1 DEF ReleaseWhere, ReleasedKeys
<1>2. ASSUME NEW p \in PedalKeys, activeSpans'[p] # None
      PROVE  activeSpans'[p] = activeSpans[p] /\ activeSpans[p] \notin matching
  BY <1>2 DEF ReleaseWhere
<1> QED
  BY <1>1, <1>2

(* Material starts, notes end: the scopes in use are those of live material. *)
LEMMA ObligedMaterial ==
  ASSUME TypeOK, NoteInv, CallerTyped, ObligedInv
  PROVE  /\ \A k \in NoteKeys, a \in Attacks : Strike(k, a) => ObligedInv'
         /\ \A a \in Attacks : NoteEnds(a) => ObligedInv'
<1> USE DEF TypeOK, CallerTyped, ObligedInv
<1>1. ASSUME NEW k \in NoteKeys, NEW a \in Attacks, Strike(k, a)
      PROVE  ObligedInv'
  <2>1. PICK scope \in LiveScopes :
          /\ AttackNote(k, scope, a)
          /\ mainAttacks' = IF scope.region = "main" THEN mainAttacks \union {a} ELSE mainAttacks
    BY <1>1 DEF Strike
  <2>2. UNCHANGED <<active, tails, boundary, logicalSpans, activeSpans, snapshotSource>>
    BY <1>1, <2>1 DEF Strike, AttackNote
  <2>3. noteOwners' = [noteOwners EXCEPT ![k] = [attack |-> a, scope |-> scope]]
    BY <2>1 DEF AttackNote
  <2>4. LiveScopes' = LiveScopes
    BY <2>2 DEF LiveScopes
  <2>5. EveryEntryReachable'
    BY <2>2, <2>3, <2>4 DEF EveryEntryReachable
  <2>6. scope.region = "main" <=> active # None /\ scope = MainScope(active)
    BY DEF LiveScopes, MainScope, TailScope
  <2>7. a \notin mainAttacks
    BY <2>1 DEF AttackNote
  <2>8. ASSUME NEW j \in NoteKeys, noteOwners'[j] # None
        PROVE  noteOwners'[j].attack \in mainAttacks'
                 <=> active' # None /\ noteOwners'[j].scope = MainScope(active')
    <3>1. CASE j = k
      BY <2>1, <2>2, <2>3, <2>6, <2>7, <3>1
    <3>2. CASE j # k
      <4>1. noteOwners'[j] = noteOwners[j]
        BY <2>3, <3>2
      <4>2. noteOwners[j].attack # a
        BY <2>1, <2>8, <4>1 DEF AttackNote, NoteInv, OwnersMinted
      <4> QED
        BY <2>1, <2>2, <2>8, <4>1, <4>2 DEF MainIsRecent
    <3> QED
      BY <3>1, <3>2
  <2> QED
    BY <2>2, <2>5, <2>8 DEF TransferIsOwed, MainIsRecent, SpansAreLogical
<1>2. ASSUME NEW a \in Attacks, NoteEnds(a)
      PROVE  ObligedInv'
  <2>1. UNCHANGED <<caller, activeSpans, snapshotSource>>
    BY <1>2 DEF NoteEnds, ReleaseNote
  <2>2. \A k \in NoteKeys : noteOwners'[k] # None => noteOwners'[k] = noteOwners[k]
    BY <1>2 DEF NoteEnds, ReleaseNote
  <2>3. LiveScopes' = LiveScopes
    BY <2>1 DEF LiveScopes, caller
  <2> QED
    BY <2>1, <2>2, <2>3
       DEF caller, TransferIsOwed, EveryEntryReachable, MainIsRecent, SpansAreLogical
<1> QED
  BY <1>1, <1>2

(* A span's entry is for a start that has not ended, although another start *)
(* may share it.                                                            *)
LEMMA ObligedSpans ==
  ASSUME TypeOK, CallerTyped, ObligedInv
  PROVE  \A c \in Channels, s \in Spans : SpanStarts(c, s) \/ SpanEnds(c, s) => ObligedInv'
<1> USE DEF TypeOK, CallerTyped, ObligedInv
<1>1. ASSUME NEW c \in Channels, NEW s \in Spans,
             UNCHANGED <<active, tails, boundary, mainAttacks, noteOwners, snapshotSource>>,
             \A p \in PedalKeys : activeSpans'[p] # None => activeSpans'[p] \in LiveScopes,
             SpansAreLogical'
      PROVE  ObligedInv'
  <2>1. LiveScopes' = LiveScopes
    BY <1>1 DEF LiveScopes
  <2> QED
    BY <1>1, <2>1 DEF TransferIsOwed, EveryEntryReachable, MainIsRecent
<1>2. ASSUME NEW c \in Channels, NEW s \in Spans, SpanStarts(c, s)
      PROVE  ObligedInv'
  <2>1. PICK scope \in StartScopes(s) :
          PedalDown(c, s, scope) /\ logicalSpans' = logicalSpans \union {<<c, s, scope>>}
    BY <1>2 DEF SpanStarts
  <2>2. scope \in LiveScopes
    BY NoneIsFresh, NotatedMaterial DEF StartScopes, LiveScopes
  <2>3. \A p \in PedalKeys : activeSpans'[p] # activeSpans[p] =>
          p = <<c, s>> /\ activeSpans'[p] = scope
    BY <2>1 DEF PedalDown
  <2>4. SpansAreLogical'
    <3> SUFFICES ASSUME NEW d \in Channels, NEW t \in Spans, activeSpans'[<<d, t>>] # None
                 PROVE  <<d, t, activeSpans'[<<d, t>>]>> \in logicalSpans'
      BY DEF SpansAreLogical
    <3>1. <<d, t>> \in PedalKeys
      BY DEF PedalKeys
    <3>2. CASE activeSpans'[<<d, t>>] = activeSpans[<<d, t>>]
      BY <2>1, <3>2 DEF SpansAreLogical
    <3>3. CASE activeSpans'[<<d, t>>] # activeSpans[<<d, t>>]
      BY <2>1, <2>3, <3>1, <3>3
    <3> QED
      BY <3>2, <3>3
  <2>5. UNCHANGED <<active, tails, boundary, mainAttacks, noteOwners, snapshotSource>>
    BY <1>2, <2>1 DEF SpanStarts, PedalDown
  <2>6. \A p \in PedalKeys : activeSpans'[p] # None => activeSpans'[p] \in LiveScopes
    BY <2>2, <2>3 DEF EveryEntryReachable
  <2> QED
    BY <1>1, <2>4, <2>5, <2>6
<1>3. ASSUME NEW c \in Channels, NEW s \in Spans, SpanEnds(c, s)
      PROVE  ObligedInv'
  <2>1. PICK scope \in Scopes :
          PedalUp(c, s) /\ logicalSpans' = logicalSpans \ {<<c, s, scope>>}
    BY <1>3 DEF SpanEnds
  <2>2. \A p \in PedalKeys : activeSpans'[p] # None =>
          p # <<c, s>> /\ activeSpans'[p] = activeSpans[p]
    BY <2>1 DEF PedalUp, PedalKeys
  <2>3. SpansAreLogical'
    <3> SUFFICES ASSUME NEW d \in Channels, NEW t \in Spans, activeSpans'[<<d, t>>] # None
                 PROVE  <<d, t, activeSpans'[<<d, t>>]>> \in logicalSpans'
      BY DEF SpansAreLogical
    <3>1. <<d, t>> # <<c, s>> /\ activeSpans'[<<d, t>>] = activeSpans[<<d, t>>]
      BY <2>2 DEF PedalKeys
    <3> QED
      BY <2>1, <3>1 DEF SpansAreLogical
  <2>4. UNCHANGED <<active, tails, boundary, mainAttacks, noteOwners, snapshotSource>>
    BY <1>3, <2>1 DEF SpanEnds, PedalUp
  <2>5. \A p \in PedalKeys : activeSpans'[p] # None => activeSpans'[p] \in LiveScopes
    BY <2>2 DEF EveryEntryReachable
  <2> QED
    BY <1>1, <2>3, <2>4, <2>5
<1> QED
  BY <1>2, <1>3


(* A boundary: a tail begins, and then takes over what crosses.             *)
LEMMA ObligedBoundary ==
  ASSUME TypeOK, NoteInv, CallerTyped, ObligedInv
  PROVE  /\ \A s \in Snapshots : ReachBoundary(s) => ObligedInv'
         /\ \A dest \in Nodes \union {None} : CrossBoundary(dest) => ObligedInv'
         /\ \A dest \in Nodes \union {None} : CrossPlainBoundary(dest) => ObligedInv'
<1> USE DEF TypeOK, CallerTyped, ObligedInv
<1>1. ASSUME NEW s \in Snapshots, ReachBoundary(s)
      PROVE  ObligedInv'
  <2>1. /\ tails' = tails \union {s} /\ boundary' = s
        /\ snapshotSource' = [snapshotSource EXCEPT ![s] = active]
        /\ UNCHANGED <<active, mainAttacks, logicalSpans, noteOwners, activeSpans>>
    BY <1>1 DEF ReachBoundary, BeginPickdownTail
  <2>2. active \in Nodes /\ active # None
    BY <1>1, NotatedMaterial, NoneIsFresh DEF ReachBoundary
  <2>3. LiveScopes \subseteq LiveScopes'
    BY <2>1 DEF LiveScopes
  <2>4. tails' = {t \in Snapshots : snapshotSource'[t] # None}
    BY <2>1, <2>2 DEF EveryEntryReachable
  <2>5. EveryEntryReachable'
    BY <2>1, <2>3, <2>4 DEF EveryEntryReachable
  <2> QED
    BY <2>1, <2>2, <2>5 DEF TransferIsOwed, MainIsRecent, SpansAreLogical
<1>2. ASSUME NEW dest \in Nodes \union {None}, CrossBoundary(dest)
      PROVE  ObligedInv'
  <2>1. /\ boundary \in tails /\ active # None
        /\ boundary' = None /\ active' = dest /\ tails' = tails /\ mainAttacks' = {}
        /\ snapshotSource' = snapshotSource
    BY <1>2, NoneIsFresh DEF CrossBoundary, TransferMainToPickdownTail, TransferIsOwed
  <2>2. ASSUME NEW scope \in LiveScopes
        PROVE  \E t \in tails : Rescoped(scope, active, boundary) = TailScope(t)
    BY <2>1, <2>2 DEF Rescoped, LiveScopes
  <2>3. ASSUME NEW k \in NoteKeys, noteOwners'[k] # None
        PROVE  \E t \in tails : noteOwners'[k].scope = TailScope(t)
    <3>1. /\ noteOwners[k] # None
          /\ noteOwners'[k] = [noteOwners[k] EXCEPT !.scope = Rescoped(@, active, boundary)]
      BY <1>2, <2>3 DEF CrossBoundary, TransferMainToPickdownTail, TransferNotes
    <3>2. noteOwners[k] \in OwnedNotes /\ noteOwners[k].scope \in LiveScopes
      BY <3>1 DEF EveryEntryReachable
    <3>3. noteOwners'[k].scope = Rescoped(noteOwners[k].scope, active, boundary)
      BY <3>1, <3>2 DEF OwnedNotes
    <3> QED
      BY <2>2, <3>2, <3>3
  <2>4. ASSUME NEW p \in PedalKeys, activeSpans'[p] # None
        PROVE  /\ activeSpans[p] # None
               /\ activeSpans'[p] = Rescoped(activeSpans[p], active, boundary)
    BY <1>2, <2>4 DEF CrossBoundary, TransferMainToPickdownTail, TransferSpans
  <2>5. \A p \in PedalKeys : activeSpans'[p] # None => \E t \in tails : activeSpans'[p] = TailScope(t)
    BY <2>2, <2>4 DEF EveryEntryReachable
  <2>6. SpansAreLogical'
    <3> SUFFICES ASSUME NEW c \in Channels, NEW s \in Spans, activeSpans'[<<c, s>>] # None
                 PROVE  <<c, s, activeSpans'[<<c, s>>]>> \in logicalSpans'
      BY DEF SpansAreLogical
    <3>1. /\ activeSpans[<<c, s>>] # None
          /\ activeSpans'[<<c, s>>] = Rescoped(activeSpans[<<c, s>>], active, boundary)
      BY <2>4 DEF PedalKeys
    <3>2. <<c, s, activeSpans[<<c, s>>]>> \in logicalSpans
      BY <3>1 DEF SpansAreLogical
    <3> QED
      BY <1>2, <3>1, <3>2 DEF CrossBoundary
  <2>7. \A t \in tails : TailScope(t) \in LiveScopes'
    BY <2>1 DEF LiveScopes
  <2>8. EveryEntryReachable'
    BY <2>1, <2>3, <2>5, <2>7 DEF EveryEntryReachable
  <2>9. MainIsRecent'
    BY <2>1, <2>3, ScopesDiffer DEF MainIsRecent
  <2> QED
    BY <2>1, <2>6, <2>8, <2>9 DEF TransferIsOwed
<1>3. ASSUME NEW dest \in Nodes \union {None}, CrossPlainBoundary(dest)
      PROVE  ObligedInv'
  <2>1. /\ active' = dest /\ mainAttacks' = {}
        /\ UNCHANGED <<noteOwners, activeSpans, snapshotSource, tails, boundary, logicalSpans>>
    BY <1>3 DEF CrossPlainBoundary, vars, tracker
  <2>2. \A k \in NoteKeys : noteOwners[k] # None => \E t \in tails : noteOwners[k].scope = TailScope(t)
    BY <1>3 DEF CrossPlainBoundary, EveryEntryReachable, LiveScopes
  <2>3. ASSUME NEW p \in PedalKeys, activeSpans[p] # None
        PROVE  \E t \in tails : activeSpans[p] = TailScope(t)
    <3>1. PICK c \in Channels, s \in Spans : p = <<c, s>>
      BY DEF PedalKeys
    <3>2. activeSpans[p] # MainScope(active)
      BY <1>3, <2>3, <3>1 DEF CrossPlainBoundary, SpansAreLogical
    <3> QED
      BY <2>3, <3>2 DEF EveryEntryReachable, LiveScopes
  <2>4. \A t \in tails : TailScope(t) \in LiveScopes'
    BY <2>1 DEF LiveScopes
  <2>5. EveryEntryReachable'
    BY <2>1, <2>2, <2>3, <2>4 DEF EveryEntryReachable
  <2>6. MainIsRecent'
    BY <2>1, <2>2, ScopesDiffer DEF MainIsRecent
  <2> QED
    BY <1>3, <2>1, <2>5, <2>6 DEF CrossPlainBoundary, TransferIsOwed, SpansAreLogical
<1> QED
  BY <1>1, <1>2, <1>3

(* The sweeps of a jump, of a tail that is over, and of stop, reset, panic. *)
LEMMA ObligedSweeps ==
  ASSUME TypeOK, NoteInv, CallerTyped, ObligedInv
  PROVE  /\ \A dest \in Nodes : Jump(dest) => ObligedInv'
         /\ \A s \in Snapshots : TailCompletes(s) => ObligedInv'
         /\ \A dest \in Nodes \union {None} : Restart(dest) => ObligedInv'
<1> USE DEF TypeOK, CallerTyped, ObligedInv
<1>1. ASSUME NEW matching, ReleaseWhere(matching),
             logicalSpans' = {p \in logicalSpans : p[3] \notin matching}
      PROVE  SpansAreLogical'
  <2> SUFFICES ASSUME NEW c \in Channels, NEW s \in Spans, activeSpans'[<<c, s>>] # None
               PROVE  <<c, s, activeSpans'[<<c, s>>]>> \in logicalSpans'
    BY DEF SpansAreLogical
  <2>1. /\ activeSpans'[<<c, s>>] = activeSpans[<<c, s>>]
        /\ activeSpans[<<c, s>>] \notin matching
    BY <1>1, Swept DEF PedalKeys
  <2> QED
    BY <1>1, <2>1 DEF SpansAreLogical
<1>2. ASSUME NEW dest \in Nodes, Jump(dest)
      PROVE  ObligedInv'
  <2>1. /\ active' = dest /\ mainAttacks' = {} /\ UNCHANGED <<snapshotSource, tails, boundary>>
        /\ ReleaseWhere({MainScope(active)}) /\ boundary = None
    BY <1>2 DEF Jump, VerticalJump
  <2>2. /\ \A k \in NoteKeys : noteOwners'[k] # None => \E t \in tails : noteOwners'[k].scope = TailScope(t)
        /\ \A p \in PedalKeys : activeSpans'[p] # None => \E t \in tails : activeSpans'[p] = TailScope(t)
    BY <2>1, Swept DEF EveryEntryReachable, LiveScopes
  <2>3. \A t \in tails : TailScope(t) \in LiveScopes'
    BY <2>1 DEF LiveScopes
  <2>4. EveryEntryReachable'
    BY <2>1, <2>2, <2>3 DEF EveryEntryReachable
  <2>5. MainIsRecent'
    BY <2>1, <2>2, ScopesDiffer DEF MainIsRecent
  <2>6. SpansAreLogical'
    BY <1>1, <1>2, <2>1 DEF Jump
  <2> QED
    BY <2>1, <2>4, <2>5, <2>6 DEF TransferIsOwed
<1>3. ASSUME NEW s \in Snapshots, TailCompletes(s)
      PROVE  ObligedInv'
  <2>1. /\ tails' = tails \ {s} /\ UNCHANGED <<active, boundary, mainAttacks>>
        /\ snapshotSource' = [snapshotSource EXCEPT ![s] = None]
        /\ ReleaseWhere({TailScope(s)}) /\ boundary = None
    BY <1>3 DEF TailCompletes, RetirePickdownTailSnapshot
  <2>2. \A scope \in LiveScopes : scope # TailScope(s) => scope \in LiveScopes'
    BY <2>1 DEF LiveScopes
  <2>3. tails' = {t \in Snapshots : snapshotSource'[t] # None}
    BY <2>1 DEF EveryEntryReachable
  <2>4. EveryEntryReachable'
    BY <2>1, <2>2, <2>3, Swept DEF EveryEntryReachable
  <2>5. MainIsRecent'
    BY <2>1, Swept DEF MainIsRecent
  <2>6. SpansAreLogical'
    BY <1>1, <1>3, <2>1 DEF TailCompletes
  <2> QED
    BY <2>1, <2>4, <2>5, <2>6 DEF TransferIsOwed
<1>4. ASSUME NEW dest \in Nodes \union {None}, Restart(dest)
      PROVE  ObligedInv'
  <2>1. /\ tails' = {} /\ snapshotSource' = [s \in Snapshots |-> None] /\ boundary' = None
        /\ ReleaseWhere(Scopes)
    BY <1>4 DEF Restart, ClearAll
  <2>2. /\ \A k \in NoteKeys : noteOwners'[k] = None
        /\ \A p \in PedalKeys : activeSpans'[p] = None
    BY <2>1, Swept DEF OwnedNotes
  <2>3. \A c \in Channels, s \in Spans : activeSpans'[<<c, s>>] = None
    BY <2>2 DEF PedalKeys
  <2> QED
    BY <2>1, <2>2, <2>3 DEF TransferIsOwed, EveryEntryReachable, MainIsRecent, SpansAreLogical
<1> QED
  BY <1>2, <1>3, <1>4

(* Whatever the caller, the tracker's invariant and the caller's hold.      *)
THEOREM PlaybackInductive == PlaybackSpec => [](IInv /\ CallerInv)
<1>1. PlaybackInit => IInv /\ CallerInv
  BY TypeInit, NoteInit, PedalInit, CallerInit DEF IInv, PlaybackInit
<1>2. ASSUME IInv, CallerInv, PlaybackNext
      PROVE  IInv' /\ CallerInv'
  <2>1. CASE ~obliging /\ Next /\ UNCHANGED <<caller, obliging>>
    <3>1. IInv'
      BY <1>2, <2>1, TypeStep, NoteStep, PedalStep DEF IInv
    <3>2. minted \subseteq minted'
      BY <2>1 DEF Next, BeginPickdownTail, TransferMainToPickdownTail, AttackNote, ReleaseNote,
                  PedalDown, PedalUp, VerticalJump, ClearAll, RetirePickdownTailSnapshot
    <3> QED
      BY <1>2, <2>1, <3>1, <3>2 DEF CallerInv, CallerTyped, caller
  <2>2. CASE obliging /\ ObligingNext /\ UNCHANGED obliging
    <3>1. TypeOK /\ NoteInv /\ PedalInv /\ CallerTyped /\ ObligedInv /\ TransferIsOwed
      BY <1>2, <2>2 DEF IInv, CallerInv, ObligedInv
    <3>2. IInv'
      BY <2>2, <3>1, ObligingCalls, TypeStep, NoteStep, PedalStep DEF IInv
    <3>3. CallerTyped'
      BY <2>2, <3>1, CallerTypedStep
    <3>4. ObligedInv'
      BY <2>2, <3>1, ObligedMaterial, ObligedSpans, ObligedBoundary, ObligedSweeps DEF ObligingNext
    <3> QED
      BY <2>2, <3>2, <3>3, <3>4 DEF CallerInv
  <2> QED
    BY <1>2, <2>1, <2>2 DEF PlaybackNext
<1>3. ASSUME IInv, CallerInv, UNCHANGED pvars
      PROVE  IInv' /\ CallerInv'
  <2>1. UNCHANGED vars /\ UNCHANGED caller /\ UNCHANGED obliging
    BY <1>3 DEF pvars
  <2>2. IInv'
    BY <1>3, <2>1, TypeStep, NoteStep, PedalStep DEF IInv
  <2> QED
    BY <1>3, <2>1, <2>2 DEF CallerInv, CallerTyped, ObligedInv, TransferIsOwed, EveryEntryReachable,
         LiveScopes, MainIsRecent, SpansAreLogical, vars, tracker, caller
<1> QED
  BY <1>1, <1>2, <1>3, PTL DEF PlaybackSpec

(* Under a caller that keeps its obligations nothing owned is out of the    *)
(* reach of a jump, of a tail's end or of a boundary.                       *)
THEOREM NothingIsOrphaned == PlaybackSpec => []ObligedEntriesAreReachable
<1>1. CallerInv => ObligedEntriesAreReachable
  BY DEF CallerInv, ObligedInv, ObligedEntriesAreReachable
<1> QED
  BY <1>1, PlaybackInductive, PTL

(* Nor does the pedal stay down when no span is left to lift it.            *)
THEOREM NoPedalIsStuck == PlaybackSpec => []ObligedPedalIsNeverStuck
<1>1. ASSUME IInv, CallerInv, obliging, NEW c \in Channels, cc64[c] = PedalValueDown
      PROVE  \E p \in logicalSpans : p[1] = c
  <2>1. Held(c) # {}
    BY <1>1 DEF IInv, PedalInv, PedalIsLogicalOr, PedalValueUp, PedalValueDown
  <2>2. PICK s \in Spans : activeSpans[<<c, s>>] # None
    BY <2>1 DEF Held
  <2>3. <<c, s, activeSpans[<<c, s>>]>> \in logicalSpans
    BY <1>1, <2>2 DEF CallerInv, ObligedInv, SpansAreLogical
  <2> QED
    BY <2>3
<1>2. IInv /\ CallerInv => ObligedPedalIsNeverStuck
  BY <1>1 DEF ObligedPedalIsNeverStuck, PedalNeverStuck
<1> QED
  BY <1>2, PlaybackInductive, PTL

(* A vertical jump cuts what the main region struck since the node was      *)
(* entered and nothing else, on whatever cycles playback came.              *)
THEOREM JumpsSpareTheTails == PlaybackSpec => JumpCutsExactlyMain
<1> DEFINE Cuts == (\E dest \in Nodes : Jump(dest)) =>
              \A k \in NoteKeys :
                sounding'[k] = IF sounding[k] \in mainAttacks THEN None ELSE sounding[k]
<1>1. ASSUME IInv, CallerInv, NEW dest \in Nodes, Jump(dest), NEW k \in NoteKeys
      PROVE  sounding'[k] = IF sounding[k] \in mainAttacks THEN None ELSE sounding[k]
  <2>1. active # None /\ ReleaseWhere({MainScope(active)})
    BY <1>1 DEF Jump, VerticalJump
  <2>2. MainIsRecent /\ mainAttacks \subseteq Attacks
    BY <1>1, <2>1 DEF CallerInv, CallerTyped, ObligedInv
  <2>3. sounding[k] = IF noteOwners[k] = None THEN None ELSE noteOwners[k].attack
    BY <1>1 DEF IInv, NoteInv, ReceiverHearsOwners
  <2>4. sounding[k] \in mainAttacks
          <=> noteOwners[k] # None /\ noteOwners[k].scope = MainScope(active)
    BY <2>1, <2>2, <2>3, NoneIsFresh DEF MainIsRecent
  <2>5. k \in ReleasedKeys({MainScope(active)}) <=> sounding[k] \in mainAttacks
    BY <2>4 DEF ReleasedKeys
  <2> QED
    BY <2>1, <2>5 DEF ReleaseWhere
<1>2. IInv /\ CallerInv => Cuts
  BY <1>1
<1> QED
  BY <1>2, PlaybackInductive, PTL DEF JumpCutsExactlyMain
=============================================================================
