---------------------------- MODULE EditTimeline ----------------------------
(***************************************************************************)
(* What undo and redo promise the user, with no stacks: one line of edits  *)
(* and a cursor.  Everything before the cursor is in the document; a new   *)
(* edit forgets what lay after it.  One edit may be on trial beyond the    *)
(* cursor, and nothing moves until it is accepted or taken back.           *)
(***************************************************************************)
EXTENDS Naturals, Sequences

CONSTANTS Edits, None

VARIABLES timeline, cursor, trial

vars == <<timeline, cursor, trial>>

Init == timeline = <<>> /\ cursor = 0 /\ trial = None

Record(e) ==
  /\ timeline' = Append(SubSeq(timeline, 1, cursor), e)
  /\ cursor' = cursor + 1

New(e) == \A i \in DOMAIN timeline : timeline[i] # e

Do(e)   == trial = None /\ New(e) /\ Record(e) /\ UNCHANGED trial
Try(e)  == trial = None /\ New(e) /\ trial' = e /\ UNCHANGED <<timeline, cursor>>
Accept  == trial # None /\ Record(trial) /\ trial' = None
Reject  == trial # None /\ trial' = None /\ UNCHANGED <<timeline, cursor>>
Back    == trial = None /\ cursor > 0 /\ cursor' = cursor - 1 /\ UNCHANGED <<timeline, trial>>
Forward == /\ trial = None /\ cursor < Len(timeline) /\ cursor' = cursor + 1
           /\ UNCHANGED <<timeline, trial>>
Forget  == trial = None /\ timeline' = <<>> /\ cursor' = 0 /\ UNCHANGED trial

Next == \/ \E e \in Edits : Do(e) \/ Try(e)
        \/ Accept \/ Reject \/ Back \/ Forward \/ Forget

Spec == Init /\ [][Next]_vars
=============================================================================
