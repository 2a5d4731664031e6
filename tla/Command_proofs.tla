---------------------------- MODULE Command_proofs ----------------------------
(***************************************************************************)
(* Proofs about the history for any commands, any of which may fail and,   *)
(* when it is a group, fault, and about a group of any number of children, *)
(* any of whose calls may fail.                                            *)
(*                                                                         *)
(* ProjectIsReplay is not inductive: undoing the top of the stack must not *)
(* take out an edit of what was there when the history was cleared, or one *)
(* lower on the stack.  IInv adds that each command stands once, and in a  *)
(* place that its state allows.  The group's properties are inductive once *)
(* the project is known to hold children only; what remains is what a loop *)
(* and its compensation do to the project, whatever subset of calls fails. *)
(***************************************************************************)
EXTENDS CommandHistory, CommandTransaction

TypeOK ==
  /\ undoStack \in Seq(Commands) /\ redoStack \in Seq(Commands)
  /\ undoRoom \in Nat /\ redoRoom \in Nat
  /\ provisional \in Commands \union {None}
  /\ poisoned \in Commands \union {None}
  /\ state \in [Commands -> {"fresh", "done", "undone", "faulted", "destroyed"}]
  /\ project \in Seq(Commands) /\ partial \subseteq Commands
  /\ unpublished \in {"nothing", "undo", "redo"}
  /\ base \in Seq(Commands)

(* What is still open is one thing: a trial, a poisoned trial, or an undo  *)
(* or redo that is not published, whose command is where the caller would  *)
(* take it back from.                                                      *)
OneAtATime ==
  /\ provisional # None => poisoned = None /\ unpublished = "nothing"
  /\ poisoned # None => unpublished = "nothing"
  /\ unpublished = "undo" => redoStack # <<>>
  /\ unpublished = "redo" => undoStack # <<>>

(* Whatever is pushed without reserving has its slot.                      *)
SlotsAhead ==
  /\ provisional # None \/ unpublished = "undo" => Len(undoStack) < undoRoom
  /\ unpublished = "redo" => Len(redoStack) < redoRoom

(* Each command is in one place, and once.                                 *)
Recorded == Range(undoStack) \union Range(redoStack)
Placed ==
  /\ IsInjective(undoStack) /\ IsInjective(redoStack)
  /\ {provisional, poisoned} \intersect Recorded = {}
  /\ Range(base) \intersect (Recorded \union {provisional, poisoned}) = {}

(* A command's place says what was last done with it.                      *)
Phases ==
  /\ \A c \in Range(undoStack) : state[c] \in {"done", "faulted"}
  /\ \A c \in Range(redoStack) : state[c] \in {"undone", "faulted"}
  /\ provisional # None => state[provisional] = "done"
  /\ poisoned # None => state[poisoned] \in {"done", "faulted"}
  /\ \A c \in Range(base) : state[c] # "fresh"

IInv == /\ TypeOK /\ OneAtATime /\ SlotsAhead /\ Placed /\ Phases
        /\ ProjectIsReplay /\ PushesAreReserved

(* The part of the invariant that is about commands and their edits.       *)
Edits ==
  /\ undoStack \in Seq(Commands) /\ redoStack \in Seq(Commands)
  /\ state \in [Commands -> {"fresh", "done", "undone", "faulted", "destroyed"}]
  /\ project \in Seq(Commands) /\ partial \subseteq Commands
  /\ base \in Seq(Commands)
  /\ Placed /\ Phases /\ ProjectIsReplay

-----------------------------------------------------------------------------
(* Consequences of the invariant *)

(* What is open, as a set, is the trial or the poisoned command.           *)
LEMMA OpenFacts ==
  ASSUME IInv
  PROVE  /\ Open \in Seq(Commands)
         /\ undoStack \o Open \in Seq(Commands)
         /\ Range(Open) = {provisional, poisoned} \ {None}
         /\ Range(undoStack \o Open) = Range(undoStack) \union Range(Open)
         /\ provisional = None /\ poisoned = None => Open = <<>> /\ undoStack \o Open = undoStack
         /\ \A c \in Commands : c \in {provisional, poisoned} =>
              Open = <<c>> /\ undoStack \o Open = Append(undoStack, c)
<1>1. /\ undoStack \in Seq(Commands) /\ None \notin Commands
      /\ provisional = None => poisoned \in Commands \union {None}
      /\ provisional # None => provisional \in Commands /\ poisoned = None
  BY CommandKinds DEF IInv, TypeOK, OneAtATime
<1>2. Range(<<>>) = {} /\ \A c : Range(<<c>>) = {c}
  BY DEF Range
<1>3. \A c \in Commands : <<c>> \in Seq(Commands)
  OBVIOUS
<1>4. <<>> \in Seq(Commands)
  BY EmptySeq
<1>5. \A c \in Commands : undoStack \o <<c>> = Append(undoStack, c)
  BY <1>1, AppendIsConcat
<1>6. undoStack \o <<>> = undoStack
  BY <1>1, ConcatEmptySeq
<1>7. /\ provisional = None /\ poisoned = None => Open = <<>>
      /\ \A c \in Commands : c \in {provisional, poisoned} => Open = <<c>>
  BY <1>1 DEF Open
<1>8. CASE provisional = None /\ poisoned = None
  BY <1>1, <1>2, <1>4, <1>6, <1>7, <1>8
<1>9. ASSUME NEW c \in Commands, c \in {provisional, poisoned}
      PROVE  /\ Open = <<c>> /\ Open \in Seq(Commands) /\ Range(Open) = {c}
             /\ {provisional, poisoned} \ {None} = {c}
  BY <1>1, <1>2, <1>3, <1>7, <1>9
<1>10. ASSUME NEW c \in Commands, c \in {provisional, poisoned}
       PROVE  /\ undoStack \o Open = Append(undoStack, c)
              /\ undoStack \o Open \in Seq(Commands)
              /\ Range(undoStack \o Open) = Range(undoStack) \union {c}
  <2>1. undoStack \o Open = Append(undoStack, c)
    BY <1>5, <1>9, <1>10
  <2>2. /\ Append(undoStack, c) \in Seq(Commands)
        /\ Range(Append(undoStack, c)) = Range(undoStack) \union {c}
    BY <1>1, PushFacts
  <2> QED BY <2>1, <2>2
<1> QED BY <1>1, <1>7, <1>8, <1>9, <1>10

(* The project holds edits the history knows of.                           *)
LEMMA ProjectFacts ==
  ASSUME IInv
  PROVE  /\ project \in Seq(Commands) /\ base \in Seq(Commands)
         /\ project = base \o Kept(undoStack \o Open, Sound)
         /\ Range(project) \subseteq Range(base) \union Range(undoStack) \union {provisional, poisoned}
         /\ \A c \in Range(project) : state[c] # "fresh"
<1>1. /\ project \in Seq(Commands) /\ base \in Seq(Commands)
      /\ project = base \o Kept(undoStack \o Open, Sound)
  BY DEF IInv, TypeOK, ProjectIsReplay
<1>2. /\ Kept(undoStack \o Open, Sound) \in Seq(Commands)
      /\ Range(Kept(undoStack \o Open, Sound)) \subseteq Range(undoStack) \union {provisional, poisoned}
  <2> DEFINE line == undoStack \o Open
  <2>1. /\ line \in Seq(Commands)
        /\ Range(line) \subseteq Range(undoStack) \union {provisional, poisoned}
    BY OpenFacts
  <2> HIDE DEF line
  <2>2. Kept(line, Sound) \in Seq(Commands) /\ Range(Kept(line, Sound)) \subseteq Range(line)
    BY <2>1, KeptType, KeptMembers
  <2> QED BY <2>1, <2>2 DEF line
<1>3. Range(project) \subseteq Range(base) \union Range(undoStack) \union {provisional, poisoned}
  BY <1>1, <1>2, RangeConcatenation
<1>4. Range(project) \subseteq Commands /\ None \notin Commands
  BY <1>1, RangeOfSeq, CommandKinds
<1>5. \A c \in Range(project) : state[c] # "fresh"
  BY <1>3, <1>4 DEF IInv, Phases
<1> QED BY <1>1, <1>3, <1>5

(* A command that was not executed yet is nowhere.                         *)
LEMMA FreshIsNowhere ==
  ASSUME IInv, NEW c \in Commands, state[c] = "fresh"
  PROVE  /\ c \notin Recorded /\ c \notin Range(base) /\ c \notin Range(project)
         /\ c # provisional /\ c # poisoned /\ c \in Sound
BY ProjectFacts, CommandKinds DEF IInv, Phases, Recorded, Sound

(* What a call on c does to the replay, whatever it does to the stacks: it *)
(* leaves the edits of the others where they were.                         *)
LEMMA WithdrawnReplay ==
  ASSUME IInv, NEW c \in Commands, c \notin Range(base)
  PROVE  /\ Kept(project, Commands \ {c}) = base \o Kept(undoStack \o Open, Sound \ {c})
         /\ Kept(project, Commands \ {c}) \in Seq(Commands)
<1> DEFINE line == undoStack \o Open
           S    == Sound
           R    == Commands \ {c}
<1>1. /\ base \in Seq(Commands) /\ line \in Seq(Commands) /\ Kept(line, S) \in Seq(Commands)
      /\ project = base \o Kept(line, S) /\ project \in Seq(Commands)
  BY ProjectFacts, OpenFacts, KeptType
<1>2. S \intersect R = S \ {c}
  BY DEF Sound
<1>3. \A i \in 1..Len(base) : base[i] \in R
  BY <1>1, RangeEquality, ElementOfSeq
<1> HIDE DEF line, S, R
<1>4. Kept(project, R) = Kept(base, R) \o Kept(Kept(line, S), R)
  <2> DEFINE kept == Kept(line, S)
  <2>1. kept \in Seq(Commands) /\ project = base \o kept
    BY <1>1
  <2> HIDE DEF kept
  <2>2. Kept(base \o kept, R) = Kept(base, R) \o Kept(kept, R)
    BY <1>1, <2>1, KeptConcat
  <2> QED BY <2>1, <2>2 DEF kept
<1>5. Kept(base, R) = base
  BY <1>1, <1>3, KeptAll
<1>6. Kept(Kept(line, S), R) = Kept(line, S \intersect R)
  BY <1>1, KeptTwice
<1>7. Kept(project, R) \in Seq(Commands)
  BY <1>1, KeptType
<1> QED BY <1>2, <1>4, <1>5, <1>6, <1>7 DEF line, S, R

-----------------------------------------------------------------------------
(* The calls *)

(* What stays true of the commands that a call is not on.                  *)
OnlyMoves(c, to) ==
  /\ state' \in [Commands -> {"fresh", "done", "undone", "faulted", "destroyed"}]
  /\ state'[c] = to
  /\ \A d \in Commands \ {c} : state'[d] = state[d]
PartialSound == partial' \subseteq Commands /\ \A d \in partial' : state'[d] \in {"faulted", "destroyed"}

(* execute() or redo() that succeeds puts one edit at the end.             *)
LEMMA MakesFacts ==
  ASSUME IInv, provisional = None, poisoned = None, NEW c \in Commands, state[c] \in {"fresh", "undone"},
         Moves(c, state[c], "done"), Makes(c)
  PROVE  /\ OnlyMoves(c, "done") /\ Sound' = Sound /\ PartialSound
         /\ project' \in Seq(Commands)
         /\ project' = base \o Kept(Append(undoStack, c), Sound)
<1>1. OnlyMoves(c, "done")
  BY DEF OnlyMoves, Moves, IInv, TypeOK
<1>2. Sound' = Sound
  BY <1>1 DEF Sound, OnlyMoves
<1>3. PartialSound
  BY <1>1 DEF PartialSound, OnlyMoves, Makes, IInv, TypeOK, ProjectIsReplay
<1>4. undoStack \o Open = undoStack /\ undoStack \in Seq(Commands) /\ base \in Seq(Commands)
      /\ Kept(undoStack, Sound) \in Seq(Commands)
  BY OpenFacts, KeptType DEF IInv, TypeOK
<1>5. Kept(Append(undoStack, c), Sound) = Append(Kept(undoStack, Sound), c)
  <2>1. c \in Sound
    BY DEF Sound
  <2>2. Kept(Append(undoStack, c), Sound) = Extended(Kept(undoStack, Sound), c, Sound)
    BY <1>4, KeptAppend
  <2> QED BY <2>1, <2>2 DEF Extended
<1>6. project' = Append(base \o Kept(undoStack, Sound), c)
  BY <1>4, ProjectFacts DEF Makes
<1>7. ASSUME NEW s \in Seq(Commands), NEW t \in Seq(Commands)
      PROVE  Append(s \o t, c) = s \o Append(t, c) /\ Append(s \o t, c) \in Seq(Commands)
  OBVIOUS
<1>8. /\ Append(base \o Kept(undoStack, Sound), c) = base \o Append(Kept(undoStack, Sound), c)
      /\ Append(base \o Kept(undoStack, Sound), c) \in Seq(Commands)
  BY <1>4, <1>7
<1> QED BY <1>1, <1>2, <1>3, <1>5, <1>6, <1>8

(* undo() that succeeds takes one edit out.                                *)
LEMMA UndoesFacts ==
  ASSUME IInv, NEW c \in Commands, c \notin Range(base), Undoes(c)
  PROVE  /\ state[c] = "done" /\ OnlyMoves(c, "undone") /\ Sound' = Sound /\ PartialSound
         /\ project' \in Seq(Commands)
         /\ project' = base \o Kept(undoStack \o Open, Sound \ {c})
<1>1. state[c] = "done" /\ OnlyMoves(c, "undone")
  BY DEF OnlyMoves, Undoes, Moves, IInv, TypeOK
<1>2. Sound' = Sound
  BY <1>1 DEF Sound, OnlyMoves
<1>3. PartialSound
  BY <1>1 DEF PartialSound, OnlyMoves, Undoes, Withdraws, IInv, TypeOK, ProjectIsReplay
<1>4. project' = Kept(project, Commands \ {c})
  BY DEF Undoes, Withdraws
<1> QED BY <1>1, <1>2, <1>3, <1>4, WithdrawnReplay

(* A call that fails changes nothing or leaves c faulted and out.          *)
LEMMA FailsFacts ==
  ASSUME IInv, NEW c \in Commands, c \notin Range(base), Fails(c)
  PROVE  /\ UNCHANGED state \/ OnlyMoves(c, "faulted")
         /\ PartialSound
         /\ project' \in Seq(Commands)
         /\ project' = base \o Kept(undoStack \o Open, Sound')
<1>1. CASE UNCHANGED edits
  BY <1>1, ProjectFacts DEF edits, PartialSound, IInv, TypeOK, ProjectIsReplay, Sound
<1>2. CASE ~UNCHANGED edits
  <2>1. state' = [state EXCEPT ![c] = "faulted"] /\ Halves(c)
    BY <1>2 DEF Fails
  <2>2. OnlyMoves(c, "faulted")
    BY <2>1 DEF OnlyMoves, IInv, TypeOK
  <2>3. Sound' = Sound \ {c}
    BY <2>2 DEF Sound, OnlyMoves
  <2>4. PartialSound
    BY <2>1, <2>2 DEF PartialSound, Halves, OnlyMoves, IInv, TypeOK, ProjectIsReplay
  <2> QED BY <2>1, <2>2, <2>3, <2>4, WithdrawnReplay DEF Halves
<1> QED BY <1>1, <1>2

(* execute() that fails leaves the project as it was, but for a part.      *)
LEMMA ExecuteFailsFacts ==
  ASSUME IInv, NEW c \in Commands, ExecuteFails(c)
  PROVE  /\ state[c] = "fresh" /\ OnlyMoves(c, "destroyed") /\ Sound' = Sound /\ PartialSound
         /\ project' = project
<1>1. state[c] = "fresh" /\ OnlyMoves(c, "destroyed")
  BY DEF OnlyMoves, ExecuteFails, Moves, IInv, TypeOK
<1>2. Sound' = Sound
  BY <1>1 DEF Sound, OnlyMoves
<1>3. partial' = partial \/ partial' = partial \union {c}
  BY DEF ExecuteFails, Halves
<1>4. PartialSound
  BY <1>1, <1>3 DEF PartialSound, OnlyMoves, IInv, TypeOK, ProjectIsReplay
<1>5. Kept(project, Commands \ {c}) = project
  <2> DEFINE R == Commands \ {c}
  <2>1. project \in Seq(Commands) /\ c \notin Range(project)
    BY <1>1, FreshIsNowhere, ProjectFacts
  <2>2. \A i \in 1..Len(project) : project[i] \in R
    BY <2>1, RangeEquality, ElementOfSeq
  <2> HIDE DEF R
  <2>3. Kept(project, R) = project
    BY <2>1, <2>2, KeptAll
  <2> QED BY <2>3 DEF R
<1>6. project' = project
  BY <1>5 DEF ExecuteFails, Halves
<1> QED BY <1>1, <1>2, <1>4, <1>6

-----------------------------------------------------------------------------
(* What each kind of step does to the commands and their edits *)

(* What a rollback leaves open is what was open, less the one rolled back. *)
LEMMA OpenAfter ==
  ASSUME undoStack' \in Seq(Commands)
  PROVE  /\ provisional' = None /\ poisoned' = None => undoStack' \o Open' = undoStack'
         /\ \A c \in Commands :
              provisional' = c \/ (provisional' = None /\ poisoned' = c) =>
                undoStack' \o Open' = Append(undoStack', c)
<1>1. undoStack' \o <<>> = undoStack'
  BY ConcatEmptySeq
<1>2. \A c \in Commands : undoStack' \o <<c>> = Append(undoStack', c)
  BY AppendIsConcat
<1>3. /\ provisional' = None /\ poisoned' = None => Open' = <<>>
      /\ \A c \in Commands : provisional' = c \/ (provisional' = None /\ poisoned' = c) => Open' = <<c>>
  BY CommandKinds DEF Open
<1> QED BY <1>1, <1>2, <1>3

(* Undo and RollbackLastRedo move the top of the undo stack to the other.  *)
LEMMA StepBack ==
  ASSUME IInv, provisional = None, poisoned = None, undoStack # <<>>,
         Undoes(Last(undoStack)), undoStack' = Front(undoStack),
         redoStack' = Append(redoStack, Last(undoStack)), UNCHANGED <<slots, base>>
  PROVE  /\ Edits'
         /\ Len(undoStack) \in Nat /\ Len(undoStack') = Len(undoStack) - 1
         /\ Len(redoStack) \in Nat /\ Len(redoStack') = Len(redoStack) + 1
<1> DEFINE c == Last(undoStack)
<1>1. /\ undoStack \in Seq(Commands) /\ redoStack \in Seq(Commands) /\ base \in Seq(Commands)
      /\ IsInjective(undoStack) /\ IsInjective(redoStack)
  BY DEF IInv, TypeOK, Placed
<1>2. /\ undoStack' \in Seq(Commands) /\ c \in Commands
      /\ undoStack = Append(undoStack', c) /\ Range(undoStack) = Range(undoStack') \union {c}
      /\ IsInjective(undoStack') /\ c \notin Range(undoStack')
      /\ Len(undoStack) \in Nat /\ Len(undoStack') = Len(undoStack) - 1
  BY <1>1, PopFacts DEF Front, Last
<1> HIDE DEF c
<1>3. c \notin Range(base) /\ Undoes(c) /\ redoStack' = Append(redoStack, c)
  BY <1>2 DEF IInv, Placed, Recorded, c
<1>4. /\ state[c] = "done" /\ OnlyMoves(c, "undone") /\ Sound' = Sound /\ PartialSound
      /\ project' \in Seq(Commands) /\ project' = base \o Kept(undoStack \o Open, Sound \ {c})
  BY <1>2, <1>3, UndoesFacts
<1>5. c \notin Range(redoStack)
  BY <1>4 DEF IInv, Phases
<1>6. /\ redoStack' \in Seq(Commands) /\ IsInjective(redoStack')
      /\ Range(redoStack') = Range(redoStack) \union {c}
      /\ Len(redoStack) \in Nat /\ Len(redoStack') = Len(redoStack) + 1
  BY <1>1, <1>2, <1>3, <1>5, PushFacts, LenProperties
<1>7. Placed'
  BY <1>2, <1>6 DEF IInv, Placed, Recorded, slots
<1>8. Phases'
  <2>1. /\ Range(undoStack') \subseteq Commands \ {c} /\ Range(redoStack) \subseteq Commands \ {c}
        /\ Range(base) \subseteq Commands \ {c}
    BY <1>1, <1>2, <1>3, <1>5, RangeOfSeq
  <2> QED BY <1>2, <1>4, <1>6, <2>1 DEF IInv, Phases, OnlyMoves, slots
<1>9. ProjectIsReplay'
  <2>1. undoStack \o Open = Append(undoStack', c) /\ undoStack' \o Open' = undoStack'
    BY <1>2, OpenFacts, OpenAfter DEF slots
  <2>2. Kept(Append(undoStack', c), Sound \ {c}) = Kept(undoStack', Sound)
    BY <1>2, KeptWithoutLast
  <2> QED BY <1>4, <2>1, <2>2 DEF ProjectIsReplay, PartialSound
<1> QED BY <1>1, <1>2, <1>4, <1>6, <1>7, <1>8, <1>9 DEF Edits, OnlyMoves, PartialSound

(* Redo and RollbackLastUndo move the top of the redo stack back.          *)
LEMMA StepForward ==
  ASSUME IInv, provisional = None, poisoned = None, redoStack # <<>>,
         Redoes(Last(redoStack)), redoStack' = Front(redoStack),
         undoStack' = Append(undoStack, Last(redoStack)), UNCHANGED <<slots, base>>
  PROVE  /\ Edits'
         /\ Len(undoStack) \in Nat /\ Len(undoStack') = Len(undoStack) + 1
         /\ Len(redoStack) \in Nat /\ Len(redoStack') = Len(redoStack) - 1
<1> DEFINE c == Last(redoStack)
<1>1. /\ undoStack \in Seq(Commands) /\ redoStack \in Seq(Commands) /\ base \in Seq(Commands)
      /\ IsInjective(undoStack) /\ IsInjective(redoStack)
  BY DEF IInv, TypeOK, Placed
<1>2. /\ redoStack' \in Seq(Commands) /\ c \in Commands
      /\ Range(redoStack) = Range(redoStack') \union {c}
      /\ IsInjective(redoStack') /\ c \notin Range(redoStack')
      /\ Len(redoStack) \in Nat /\ Len(redoStack') = Len(redoStack) - 1
  BY <1>1, PopFacts DEF Front, Last
<1> HIDE DEF c
<1>3. /\ c \notin Range(base) /\ undoStack' = Append(undoStack, c)
      /\ state[c] = "undone" /\ Moves(c, "undone", "done") /\ Makes(c)
  BY <1>2 DEF IInv, Placed, Recorded, Redoes, Moves, c
<1>4. /\ OnlyMoves(c, "done") /\ Sound' = Sound /\ PartialSound
      /\ project' \in Seq(Commands) /\ project' = base \o Kept(undoStack', Sound)
  BY <1>2, <1>3, MakesFacts
<1>5. c \notin Range(undoStack)
  BY <1>3 DEF IInv, Phases
<1>6. /\ undoStack' \in Seq(Commands) /\ IsInjective(undoStack')
      /\ Range(undoStack') = Range(undoStack) \union {c}
      /\ Len(undoStack) \in Nat /\ Len(undoStack') = Len(undoStack) + 1
  BY <1>1, <1>2, <1>3, <1>5, PushFacts, LenProperties
<1>7. Placed'
  BY <1>2, <1>6 DEF IInv, Placed, Recorded, slots
<1>8. Phases'
  <2>1. /\ Range(redoStack') \subseteq Commands \ {c} /\ Range(undoStack) \subseteq Commands \ {c}
        /\ Range(base) \subseteq Commands \ {c}
    BY <1>1, <1>2, <1>3, <1>5, RangeOfSeq
  <2> QED BY <1>2, <1>4, <1>6, <2>1 DEF IInv, Phases, OnlyMoves, slots
<1>9. ProjectIsReplay'
  <2>1. undoStack' \o Open' = undoStack'
    BY <1>6, OpenAfter DEF slots
  <2> QED BY <1>4, <2>1 DEF ProjectIsReplay, PartialSound
<1> QED BY <1>1, <1>2, <1>4, <1>6, <1>7, <1>8, <1>9 DEF Edits, OnlyMoves, PartialSound

(* A call that fails on a command the history keeps where it is, or moves  *)
(* from the trial to the poisoned slot.                                    *)
LEMMA StepFails ==
  ASSUME IInv, NEW c \in Commands, c \in Recorded \union {provisional, poisoned},
         Fails(c), UNCHANGED <<stacks, base>>,
         \/ c # provisional /\ UNCHANGED slots
         \/ c = provisional /\ provisional' = None /\ poisoned' = c
  PROVE  Edits'
<1>1. /\ undoStack \in Seq(Commands) /\ redoStack \in Seq(Commands) /\ base \in Seq(Commands)
      /\ provisional \in Commands \union {None} /\ poisoned \in Commands \union {None}
      /\ provisional # None => poisoned = None
      /\ None \notin Commands
  BY CommandKinds DEF IInv, TypeOK, OneAtATime
<1>2. c \notin Range(base)
  BY DEF IInv, Placed
<1>3. /\ UNCHANGED state \/ OnlyMoves(c, "faulted")
      /\ PartialSound
      /\ project' \in Seq(Commands) /\ project' = base \o Kept(undoStack \o Open, Sound')
  BY <1>2, FailsFacts
<1>4. state' \in [Commands -> {"fresh", "done", "undone", "faulted", "destroyed"}]
  BY <1>3 DEF OnlyMoves, IInv, TypeOK
<1>5. {provisional', poisoned'} = {provisional, poisoned}
  BY <1>1 DEF slots
<1>6. Placed'
  BY <1>5 DEF IInv, Placed, Recorded, stacks
<1>7. \A d \in Commands : state'[d] = state[d] \/ state'[d] = "faulted"
  BY <1>3 DEF OnlyMoves
<1>8. Phases'
  <2>1. Range(undoStack) \subseteq Commands /\ Range(redoStack) \subseteq Commands /\ Range(base) \subseteq Commands
    BY <1>1, RangeOfSeq
  <2>2. provisional' # None => state'[provisional'] = "done"
    BY <1>1, <1>3 DEF IInv, Phases, slots, OnlyMoves
  <2>3. poisoned' # None => poisoned' \in Commands /\ state[poisoned'] \in {"done", "faulted"}
    BY <1>1 DEF IInv, Phases, slots
  <2> QED BY <1>1, <1>7, <2>1, <2>2, <2>3 DEF IInv, Phases, stacks
<1>9. undoStack' \o Open' = undoStack \o Open
  <2>1. undoStack' \in Seq(Commands) /\ undoStack' = undoStack
    BY <1>1 DEF stacks
  <2>2. CASE UNCHANGED slots
    BY <2>1, <2>2 DEF Open, slots
  <2>3. CASE c = provisional /\ provisional' = None /\ poisoned' = c
    <3>1. undoStack' \o Open' = Append(undoStack', c)
      BY <2>1, <2>3, OpenAfter
    <3> QED BY <2>1, <2>3, <3>1, OpenFacts
  <2> QED BY <2>2, <2>3
<1>10. ProjectIsReplay'
  BY <1>3, <1>9 DEF ProjectIsReplay, PartialSound
<1> QED BY <1>1, <1>3, <1>4, <1>6, <1>8, <1>10 DEF Edits, PartialSound, stacks

(* Every command stays where it is, and the project too.                   *)
LEMMA NothingMoves ==
  ASSUME IInv, UNCHANGED <<stacks, slots, edits, base>>
  PROVE  Edits'
BY DEF stacks, slots, edits, IInv, TypeOK, Edits, Placed, Recorded, Phases, ProjectIsReplay, Sound, Open

(* A command is destroyed that the history never took.                     *)
LEMMA StepDestroys ==
  ASSUME IInv, NEW c \in Commands, ExecuteFails(c), UNCHANGED <<stacks, slots, base>>
  PROVE  Edits'
<1>1. /\ state[c] = "fresh" /\ OnlyMoves(c, "destroyed") /\ Sound' = Sound /\ PartialSound
      /\ project' = project
  BY ExecuteFailsFacts
<1>2. c \notin Recorded /\ c \notin Range(base) /\ c # provisional /\ c # poisoned
  BY <1>1, FreshIsNowhere
<1>3. /\ Range(undoStack) \subseteq Commands \ {c} /\ Range(redoStack) \subseteq Commands \ {c}
      /\ Range(base) \subseteq Commands \ {c}
  BY <1>2, RangeOfSeq DEF IInv, TypeOK, Recorded
<1>4. \A d \in Commands \ {c} : state'[d] = state[d]
  BY <1>1 DEF OnlyMoves
<1>5. Phases'
  BY <1>2, <1>3, <1>4 DEF IInv, TypeOK, Phases, stacks, slots
<1>6. ProjectIsReplay'
  BY <1>1 DEF IInv, ProjectIsReplay, PartialSound, Open, stacks, slots
<1> QED BY <1>1, <1>5, <1>6 DEF Edits, IInv, TypeOK, OnlyMoves, PartialSound, Placed, Recorded, stacks, slots

(* A command that executes is recorded at once, and nothing is undone.     *)
LEMMA StepExecutes ==
  ASSUME IInv, provisional = None, poisoned = None, NEW c \in Commands, Executes(c),
         undoStack' = Append(undoStack, c), redoStack' = <<>>, UNCHANGED <<slots, base>>
  PROVE  Edits' /\ Len(undoStack') = Len(undoStack) + 1
<1>1. undoStack \in Seq(Commands) /\ base \in Seq(Commands) /\ IsInjective(undoStack)
  BY DEF IInv, TypeOK, Placed
<1>2. state[c] = "fresh" /\ Moves(c, "fresh", "done") /\ Makes(c)
  BY DEF Executes, Moves
<1>3. /\ OnlyMoves(c, "done") /\ Sound' = Sound /\ PartialSound
      /\ project' \in Seq(Commands) /\ project' = base \o Kept(undoStack', Sound)
  BY <1>2, MakesFacts
<1>4. c \notin Range(undoStack) /\ c \notin Range(base)
  BY <1>2, FreshIsNowhere DEF Recorded
<1>5. /\ undoStack' \in Seq(Commands) /\ IsInjective(undoStack')
      /\ Range(undoStack') = Range(undoStack) \union {c} /\ Len(undoStack') = Len(undoStack) + 1
  BY <1>1, <1>4, PushFacts
<1>6. redoStack' \in Seq(Commands) /\ Range(redoStack') = {} /\ IsInjective(redoStack')
  BY EmptySeq DEF Range, IsInjective
<1>7. Placed'
  BY <1>4, <1>5, <1>6, CommandKinds DEF IInv, Placed, Recorded, slots
<1>8. Phases'
  <2>1. Range(undoStack) \subseteq Commands \ {c} /\ Range(base) \subseteq Commands \ {c}
    BY <1>1, <1>4, RangeOfSeq
  <2> QED BY <1>3, <1>5, <1>6, <2>1 DEF IInv, Phases, OnlyMoves, slots
<1>9. undoStack' \o Open' = undoStack'
  BY <1>5, OpenAfter DEF slots
<1>10. ProjectIsReplay'
  BY <1>3, <1>9 DEF ProjectIsReplay, PartialSound
<1> QED BY <1>1, <1>3, <1>5, <1>6, <1>7, <1>8, <1>10 DEF Edits, OnlyMoves, PartialSound

(* A command that executes on trial.                                       *)
LEMMA StepTries ==
  ASSUME IInv, provisional = None, poisoned = None, NEW c \in Commands, Executes(c),
         provisional' = c, UNCHANGED <<stacks, poisoned, base>>
  PROVE  Edits'
<1>1. undoStack \in Seq(Commands) /\ redoStack \in Seq(Commands) /\ base \in Seq(Commands)
  BY DEF IInv, TypeOK
<1>2. state[c] = "fresh" /\ Moves(c, "fresh", "done") /\ Makes(c)
  BY DEF Executes, Moves
<1>3. /\ OnlyMoves(c, "done") /\ Sound' = Sound /\ PartialSound
      /\ project' \in Seq(Commands) /\ project' = base \o Kept(Append(undoStack, c), Sound)
  BY <1>2, MakesFacts
<1>4. c \notin Recorded /\ c \notin Range(base)
  BY <1>2, FreshIsNowhere
<1>5. Placed'
  BY <1>4, CommandKinds DEF IInv, Placed, Recorded, stacks
<1>6. Phases'
  <2>1. /\ Range(undoStack) \subseteq Commands \ {c} /\ Range(redoStack) \subseteq Commands \ {c}
        /\ Range(base) \subseteq Commands \ {c}
    BY <1>1, <1>4, RangeOfSeq DEF Recorded
  <2> QED BY <1>3, <2>1 DEF IInv, Phases, OnlyMoves, stacks
<1>7. undoStack' \o Open' = Append(undoStack, c)
  BY <1>1, OpenAfter DEF stacks
<1>8. ProjectIsReplay'
  BY <1>3, <1>7 DEF ProjectIsReplay, PartialSound
<1> QED BY <1>1, <1>3, <1>5, <1>6, <1>8 DEF Edits, OnlyMoves, PartialSound, stacks

(* A trial is accepted.                                                    *)
LEMMA StepCommits ==
  ASSUME IInv, Commit
  PROVE  Edits' /\ Len(undoStack') = Len(undoStack) + 1
<1> DEFINE c == provisional
<1>1. /\ undoStack \in Seq(Commands) /\ base \in Seq(Commands) /\ IsInjective(undoStack)
      /\ c \in Commands /\ poisoned = None /\ c \notin Range(undoStack)
      /\ c \notin Range(base) /\ state[c] = "done"
  BY DEF IInv, TypeOK, Placed, OneAtATime, Commit, Recorded, Phases
<1>2. /\ undoStack' = Append(undoStack, c) /\ redoStack' = <<>> /\ provisional' = None
      /\ poisoned' = None /\ state' = state /\ project' = project /\ partial' = partial /\ base' = base
  BY <1>1 DEF Commit, edits
<1> HIDE DEF c
<1>3. /\ undoStack' \in Seq(Commands) /\ IsInjective(undoStack')
      /\ Range(undoStack') = Range(undoStack) \union {c} /\ Len(undoStack') = Len(undoStack) + 1
  BY <1>1, <1>2, PushFacts
<1>4. redoStack' \in Seq(Commands) /\ Range(redoStack') = {} /\ IsInjective(redoStack')
  BY <1>2, EmptySeq DEF Range, IsInjective
<1>5. None \notin Range(undoStack') /\ None \notin Range(base)
  BY <1>1, <1>3, RangeOfSeq, CommandKinds
<1>6. Placed'
  BY <1>1, <1>2, <1>3, <1>4, <1>5 DEF IInv, Placed, Recorded
<1>7. Phases'
  BY <1>1, <1>2, <1>3, <1>4 DEF IInv, Phases
<1>8. undoStack' \o Open' = undoStack \o Open
  BY <1>1, <1>2, <1>3, OpenFacts, OpenAfter DEF c
<1>9. ProjectIsReplay'
  BY <1>2, <1>8 DEF IInv, ProjectIsReplay, Sound
<1> QED BY <1>1, <1>2, <1>3, <1>4, <1>6, <1>7, <1>9 DEF Edits, IInv, TypeOK

(* A trial, poisoned or not, is taken back.                                *)
LEMMA StepRejects ==
  ASSUME IInv, NEW c \in Commands, c \in {provisional, poisoned}, Undoes(c),
         provisional' = None, poisoned' = None, UNCHANGED <<stacks, base>>
  PROVE  Edits'
<1>1. /\ undoStack \in Seq(Commands) /\ redoStack \in Seq(Commands) /\ base \in Seq(Commands)
      /\ c \notin Recorded /\ c \notin Range(base)
  BY DEF IInv, TypeOK, Placed
<1>2. /\ OnlyMoves(c, "undone") /\ Sound' = Sound /\ PartialSound
      /\ project' \in Seq(Commands) /\ project' = base \o Kept(undoStack \o Open, Sound \ {c})
  BY <1>1, UndoesFacts
<1>3. /\ Range(undoStack) \subseteq Commands \ {c} /\ Range(redoStack) \subseteq Commands \ {c}
      /\ Range(base) \subseteq Commands \ {c}
  BY <1>1, RangeOfSeq DEF Recorded
<1>4. Placed'
  BY <1>3, CommandKinds DEF IInv, Placed, Recorded, stacks
<1>5. Phases'
  BY <1>2, <1>3 DEF IInv, Phases, OnlyMoves, stacks
<1>6. undoStack \o Open = Append(undoStack, c)
  BY OpenFacts
<1>7. Kept(Append(undoStack, c), Sound \ {c}) = Kept(undoStack, Sound)
  BY <1>1, KeptWithoutLast DEF Recorded
<1>8. undoStack' \o Open' = undoStack
  BY <1>1, OpenAfter DEF stacks
<1>9. ProjectIsReplay'
  BY <1>2, <1>6, <1>7, <1>8 DEF ProjectIsReplay, PartialSound
<1> QED BY <1>1, <1>2, <1>4, <1>5, <1>9 DEF Edits, OnlyMoves, PartialSound, stacks

(* The history is forgotten, and the project is what it starts from.       *)
LEMMA StepClears ==
  ASSUME IInv, Clear
  PROVE  Edits'
<1>1. /\ undoStack' = <<>> /\ redoStack' = <<>> /\ base' = project /\ provisional' = None
      /\ poisoned' = None /\ state' = state /\ project' = project /\ partial' = partial
  BY DEF Clear, Idle, slots, edits
<1>2. <<>> \in Seq(Commands) /\ Range(<<>>) = {} /\ IsInjective(<<>>)
  BY EmptySeq DEF Range, IsInjective
<1>3. /\ project \in Seq(Commands) /\ None \notin Range(project)
      /\ \A c \in Range(project) : state[c] # "fresh"
  BY ProjectFacts, RangeOfSeq, CommandKinds
<1>4. Placed'
  BY <1>1, <1>2, <1>3 DEF Placed, Recorded
<1>5. Phases'
  BY <1>1, <1>2, <1>3 DEF Phases
<1>6. ProjectIsReplay'
  <2>1. undoStack' \o Open' = <<>>
    BY <1>1, <1>2, OpenAfter
  <2>2. project \o <<>> = project /\ \A S : Kept(<<>>, S) = <<>>
    BY <1>3, ConcatEmptySeq, KeptEmpty
  <2>3. \A c \in partial : state[c] \in {"faulted", "destroyed"}
    BY DEF IInv, ProjectIsReplay
  <2> QED BY <1>1, <2>1, <2>2, <2>3 DEF ProjectIsReplay
<1> QED BY <1>1, <1>2, <1>3, <1>4, <1>5, <1>6 DEF Edits, IInv, TypeOK

-----------------------------------------------------------------------------
(* The inductive invariant *)

(* An empty history with nothing executed satisfies the invariant.         *)
LEMMA InitIInv == Init => IInv
<1> SUFFICES ASSUME Init PROVE IInv
  OBVIOUS
<1>1. /\ undoStack = <<>> /\ redoStack = <<>> /\ undoRoom = 0 /\ redoRoom = 0
      /\ provisional = None /\ poisoned = None /\ project = <<>> /\ partial = {}
      /\ unpublished = "nothing" /\ base = <<>> /\ Open = <<>>
      /\ state \in [Commands -> {"fresh", "done", "undone", "faulted", "destroyed"}]
  BY DEF Init, Open
<1>2. <<>> \in Seq(Commands) /\ Len(<<>>) = 0 /\ Range(<<>>) = {} /\ IsInjective(<<>>)
  BY EmptySeq DEF Range, IsInjective
<1>3. <<>> \o <<>> = <<>> /\ Kept(<<>>, Sound) = <<>>
  BY <1>2, ConcatEmptySeq, KeptEmpty
<1>4. TypeOK
  BY <1>1, <1>2 DEF TypeOK
<1>5. Placed /\ Phases
  BY <1>1, <1>2 DEF Placed, Phases, Recorded
<1>6. ProjectIsReplay
  BY <1>1, <1>3 DEF ProjectIsReplay
<1>7. OneAtATime /\ SlotsAhead /\ PushesAreReserved
  BY <1>1, <1>2 DEF OneAtATime, SlotsAhead, PushesAreReserved
<1> QED BY <1>4, <1>5, <1>6, <1>7 DEF IInv

(* reserve() makes room for one more and takes none away.                  *)
LEMMA ReservedFacts ==
  ASSUME NEW r \in Nat, NEW s \in Seq(Commands)
  PROVE  /\ Reserved(r, s) \in Nat /\ Len(s) \in Nat
         /\ Reserved(r, s) >= r /\ Reserved(r, s) > Len(s)
BY LenProperties DEF Reserved

(* The invariant without the part about commands and their edits.          *)
Slots ==
  /\ undoRoom \in Nat /\ redoRoom \in Nat
  /\ provisional \in Commands \union {None}
  /\ poisoned \in Commands \union {None}
  /\ unpublished \in {"nothing", "undo", "redo"}
  /\ OneAtATime /\ SlotsAhead /\ PushesAreReserved

(* The part about the edits and the part about reserved slots are the      *)
(* whole.                                                                  *)
LEMMA SplitIInv == IInv <=> Edits /\ Slots
BY DEF IInv, Edits, Slots, TypeOK

(* Every step keeps the invariant.                                         *)
LEMMA NextIInv ==
  ASSUME IInv, [Next]_vars
  PROVE  IInv'
<1>1. /\ undoStack \in Seq(Commands) /\ redoStack \in Seq(Commands)
      /\ Len(undoStack) \in Nat /\ Len(redoStack) \in Nat
      /\ undoStack = <<>> <=> Len(undoStack) = 0
      /\ redoStack = <<>> <=> Len(redoStack) = 0
      /\ None \notin Commands /\ Slots
  BY LenProperties, EmptySeq, CommandKinds, SplitIInv DEF IInv, TypeOK
<1>2. Len(<<>>) = 0 /\ \A s \in Seq(Commands) : s # <<>> => Len(s) > 0
  BY EmptySeq
<1>3. SUFFICES Edits' /\ Slots'
  BY SplitIInv, PTL
<1> USE DEF Slots, OneAtATime, SlotsAhead, PushesAreReserved
<1>4. CASE UNCHANGED vars
  <2>1. Edits'
    BY <1>4, NothingMoves DEF vars
  <2> QED BY <1>1, <1>4, <2>1 DEF vars, stacks, room, slots
<1>5. ASSUME NEW c \in Commands, ExecuteNew(c) PROVE Edits' /\ Slots'
  <2>1. undoRoom' \in Nat /\ undoRoom' >= undoRoom /\ undoRoom' > Len(undoStack)
    BY <1>1, <1>5, ReservedFacts DEF ExecuteNew
  <2>2. CASE Executes(c) /\ undoStack' = Append(undoStack, c) /\ redoStack' = <<>>
    <3>1. Edits' /\ Len(undoStack') = Len(undoStack) + 1
      BY <1>5, <2>2, StepExecutes DEF ExecuteNew, Idle
    <3> QED BY <1>1, <1>2, <1>5, <2>1, <2>2, <3>1 DEF ExecuteNew, Idle, slots
  <2>3. CASE ExecuteFails(c) /\ UNCHANGED stacks
    <3>1. Edits'
      BY <1>5, <2>3, StepDestroys DEF ExecuteNew
    <3> QED BY <1>1, <1>5, <2>1, <2>3, <3>1 DEF ExecuteNew, Idle, slots, stacks
  <2> QED BY <1>5, <2>2, <2>3 DEF ExecuteNew
<1>6. ASSUME NEW c \in Commands, BeginTransaction(c) PROVE Edits' /\ Slots'
  <2>1. undoRoom' \in Nat /\ undoRoom' >= undoRoom /\ undoRoom' > Len(undoStack)
    BY <1>1, <1>6, ReservedFacts DEF BeginTransaction
  <2>2. CASE Executes(c) /\ provisional' = c
    <3>1. Edits'
      BY <1>6, <2>2, StepTries DEF BeginTransaction, Idle
    <3> QED BY <1>1, <1>6, <2>1, <2>2, <3>1 DEF BeginTransaction, Idle, stacks
  <2>3. CASE ExecuteFails(c) /\ UNCHANGED provisional
    <3>1. Edits'
      BY <1>6, <2>3, StepDestroys DEF BeginTransaction, slots
    <3> QED BY <1>1, <1>6, <2>1, <2>3, <3>1 DEF BeginTransaction, Idle, stacks
  <2> QED BY <1>6, <2>2, <2>3 DEF BeginTransaction
<1>7. CASE Commit
  <2>1. Edits' /\ Len(undoStack') = Len(undoStack) + 1
    BY <1>7, StepCommits
  <2> QED BY <1>1, <1>2, <1>7, <2>1 DEF Commit, room
<1>8. CASE Abort
  <2>1. provisional \in Commands
    BY <1>1, <1>8 DEF Abort
  <2>2. CASE Undoes(provisional) /\ UNCHANGED poisoned
    <3>1. Edits'
      BY <1>1, <1>8, <2>1, <2>2, StepRejects DEF Abort
    <3> QED BY <1>1, <1>8, <2>2, <3>1 DEF Abort, stacks, room
  <2>3. CASE Fails(provisional) /\ poisoned' = provisional
    <3>1. Edits'
      BY <1>8, <2>1, <2>3, StepFails DEF Abort
    <3> QED BY <1>1, <1>8, <2>1, <2>3, <3>1 DEF Abort, stacks, room
  <2> QED BY <1>8, <2>2, <2>3 DEF Abort
<1>9. CASE Recover
  <2>1. poisoned \in Commands /\ provisional = None
    BY <1>1, <1>9 DEF Recover
  <2>2. CASE Undoes(poisoned) /\ poisoned' = None
    <3>1. Edits'
      BY <1>9, <2>1, <2>2, StepRejects DEF Recover
    <3> QED BY <1>1, <1>9, <2>1, <2>2, <3>1 DEF Recover, stacks, room
  <2>3. CASE Fails(poisoned) /\ UNCHANGED poisoned
    <3>1. Edits'
      BY <1>1, <1>9, <2>1, <2>3, StepFails DEF Recover, slots
    <3> QED BY <1>1, <1>9, <2>1, <2>3, <3>1 DEF Recover, stacks, room
  <2> QED BY <1>9, <2>2, <2>3 DEF Recover
<1>10. CASE Undo
  <2>1. redoRoom' \in Nat /\ redoRoom' >= redoRoom /\ redoRoom' > Len(redoStack)
    BY <1>1, <1>10, ReservedFacts DEF Undo
  <2>2. CASE Undoes(Last(undoStack)) /\ unpublished' = "undo" /\ undoStack' = Front(undoStack)
             /\ redoStack' = Append(redoStack, Last(undoStack))
    <3>1. Edits' /\ Len(undoStack') = Len(undoStack) - 1 /\ Len(redoStack') = Len(redoStack) + 1
      BY <1>10, <2>2, StepBack DEF Undo, Idle
    <3> QED BY <1>1, <1>2, <1>10, <2>1, <2>2, <3>1 DEF Undo, Idle, slots
  <2>3. CASE Fails(Last(undoStack)) /\ UNCHANGED <<stacks, unpublished>>
    <3>1. Last(undoStack) \in Commands /\ Last(undoStack) \in Recorded
      BY <1>1, <1>10, PopFacts DEF Undo, Last, Recorded
    <3>2. Edits'
      BY <1>1, <1>10, <2>3, <3>1, StepFails DEF Undo, Idle
    <3> QED BY <1>1, <1>10, <2>1, <2>3, <3>2 DEF Undo, Idle, slots, stacks
  <2> QED BY <1>10, <2>2, <2>3 DEF Undo
<1>11. CASE Redo
  <2>1. undoRoom' \in Nat /\ undoRoom' >= undoRoom /\ undoRoom' > Len(undoStack)
    BY <1>1, <1>11, ReservedFacts DEF Redo
  <2>2. CASE Redoes(Last(redoStack)) /\ unpublished' = "redo" /\ redoStack' = Front(redoStack)
             /\ undoStack' = Append(undoStack, Last(redoStack))
    <3>1. Edits' /\ Len(undoStack') = Len(undoStack) + 1 /\ Len(redoStack') = Len(redoStack) - 1
      BY <1>11, <2>2, StepForward DEF Redo, Idle
    <3> QED BY <1>1, <1>2, <1>11, <2>1, <2>2, <3>1 DEF Redo, Idle, slots
  <2>3. CASE Fails(Last(redoStack)) /\ UNCHANGED <<stacks, unpublished>>
    <3>1. Last(redoStack) \in Commands /\ Last(redoStack) \in Recorded
      BY <1>1, <1>11, PopFacts DEF Redo, Last, Recorded
    <3>2. Edits'
      BY <1>1, <1>11, <2>3, <3>1, StepFails DEF Redo, Idle
    <3> QED BY <1>1, <1>11, <2>1, <2>3, <3>2 DEF Redo, Idle, slots, stacks
  <2> QED BY <1>11, <2>2, <2>3 DEF Redo
<1>12. CASE Publish
  <2>1. Edits'
    BY <1>12, NothingMoves DEF Publish
  <2> QED BY <1>1, <1>12, <2>1 DEF Publish, stacks, room, slots
<1>13. CASE RollbackLastUndo
  <2>1. provisional = None /\ poisoned = None
    BY <1>1, <1>13 DEF RollbackLastUndo
  <2>2. CASE Redoes(Last(redoStack)) /\ redoStack' = Front(redoStack)
             /\ undoStack' = Append(undoStack, Last(redoStack))
    <3>1. Edits' /\ Len(undoStack') = Len(undoStack) + 1 /\ Len(redoStack') = Len(redoStack) - 1
      BY <1>13, <2>1, <2>2, StepForward DEF RollbackLastUndo
    <3> QED BY <1>1, <1>13, <2>1, <3>1 DEF RollbackLastUndo, slots, room
  <2>3. CASE Fails(Last(redoStack)) /\ UNCHANGED stacks
    <3>1. Last(redoStack) \in Commands /\ Last(redoStack) \in Recorded
      BY <1>1, <1>13, PopFacts DEF RollbackLastUndo, Last, Recorded
    <3>2. Edits'
      BY <1>1, <1>13, <2>1, <2>3, <3>1, StepFails DEF RollbackLastUndo
    <3> QED BY <1>1, <1>13, <2>1, <2>3, <3>2 DEF RollbackLastUndo, slots, stacks, room
  <2> QED BY <1>13, <2>2, <2>3 DEF RollbackLastUndo
<1>14. CASE RollbackLastRedo
  <2>1. provisional = None /\ poisoned = None
    BY <1>1, <1>14 DEF RollbackLastRedo
  <2>2. CASE Undoes(Last(undoStack)) /\ undoStack' = Front(undoStack)
             /\ redoStack' = Append(redoStack, Last(undoStack))
    <3>1. Edits' /\ Len(undoStack') = Len(undoStack) - 1 /\ Len(redoStack') = Len(redoStack) + 1
      BY <1>14, <2>1, <2>2, StepBack DEF RollbackLastRedo
    <3> QED BY <1>1, <1>14, <2>1, <3>1 DEF RollbackLastRedo, slots, room
  <2>3. CASE Fails(Last(undoStack)) /\ UNCHANGED stacks
    <3>1. Last(undoStack) \in Commands /\ Last(undoStack) \in Recorded
      BY <1>1, <1>14, PopFacts DEF RollbackLastRedo, Last, Recorded
    <3>2. Edits'
      BY <1>1, <1>14, <2>1, <2>3, <3>1, StepFails DEF RollbackLastRedo
    <3> QED BY <1>1, <1>14, <2>1, <2>3, <3>2 DEF RollbackLastRedo, slots, stacks, room
  <2> QED BY <1>14, <2>2, <2>3 DEF RollbackLastRedo
<1>15. CASE Clear
  <2>1. Edits'
    BY <1>15, StepClears
  <2> QED BY <1>1, <1>2, <1>15, <2>1 DEF Clear, Idle, room, slots
<1> QED BY <1>4, <1>5, <1>6, <1>7, <1>8, <1>9, <1>10, <1>11, <1>12, <1>13, <1>14, <1>15 DEF Next

(* The invariant holds in every state the history can reach.               *)
THEOREM IInvHolds == Spec => []IInv
<1>1. Init => IInv
  BY InitIInv
<1>2. IInv /\ [Next]_vars => IInv'
  BY NextIInv
<1> QED BY <1>1, <1>2, PTL DEF Spec

(* The project is the replay of the history, whatever fails.               *)
THEOREM HistoryReplays == Spec => []ProjectIsReplay
<1>1. IInv => ProjectIsReplay
  BY DEF IInv
<1> QED BY <1>1, IInvHolds, PTL

(* No push into a stack can allocate: the slot was reserved before.        *)
THEOREM NoPushAllocates == Spec => []PushesAreReserved
<1>1. IInv => PushesAreReserved
  BY DEF IInv
<1> QED BY <1>1, IInvHolds, PTL

-----------------------------------------------------------------------------
(* The history is a timeline *)

(* Reversing a stack with one more on top puts that one in front.          *)
LEMMA ReverseFacts ==
  ASSUME NEW X, NEW s \in Seq(X)
  PROVE  /\ Reverse(s) \in Seq(X) /\ Len(Reverse(s)) = Len(s)
         /\ Range(Reverse(s)) = Range(s)
         /\ \A x \in X : Reverse(Append(s, x)) = <<x>> \o Reverse(s)
<1> DEFINE n == Len(s)
<1>1. n \in Nat /\ DOMAIN s = 1..n /\ \A i \in 1..n : s[i] \in X
  BY LenProperties, ElementOfSeq
<1>2. \A i \in 1..n : n - i + 1 \in 1..n
  BY <1>1
<1>3. Reverse(s) \in [1..n -> X]
  BY <1>1, <1>2 DEF Reverse
<1>4. Reverse(s) \in Seq(X)
  BY <1>1, <1>3, SeqDef
<1>5. Len(Reverse(s)) = n /\ DOMAIN Reverse(s) = 1..n
  BY <1>1, <1>3, <1>4, LenProperties
<1>6. \A i \in 1..n : Reverse(s)[i] = s[n - i + 1]
  BY DEF Reverse
<1>7. Range(Reverse(s)) = Range(s)
  <2>1. \A i \in 1..n : n - (n - i + 1) + 1 = i
    BY <1>1
  <2>2. \A i \in 1..n : Reverse(s)[n - i + 1] = s[i]
    BY <1>2, <1>6, <2>1
  <2> HIDE DEF n
  <2> QED BY <1>1, <1>2, <1>5, <1>6, <2>2 DEF Range
<1>8. ASSUME NEW x \in X PROVE Reverse(Append(s, x)) = <<x>> \o Reverse(s)
  <2> DEFINE t == Append(s, x)
             p == <<x>> \o Reverse(s)
             m == n + 1
  <2>1. /\ t \in Seq(X) /\ Len(t) = m /\ m \in Nat /\ t[m] = x
        /\ \A i \in 1..n : t[i] = s[i]
    BY <1>1, AppendProperties
  <2>2. p \in Seq(X) /\ Len(p) = m /\ p[1] = x /\ \A i \in 1..n : p[i + 1] = Reverse(s)[i]
    <3>1. <<x>> \in Seq(X) /\ Len(<<x>>) = 1 /\ <<x>>[1] = x
      OBVIOUS
    <3>2. /\ p \in Seq(X) /\ Len(p) = 1 + n
          /\ \A i \in 1..(1 + n) : p[i] = IF i <= 1 THEN <<x>>[i] ELSE Reverse(s)[i - 1]
      BY <1>4, <1>5, <3>1, ConcatProperties
    <3> HIDE DEF p
    <3>3. 1 \in 1..(1 + n) /\ \A i \in 1..n : i + 1 \in 1..(1 + n) /\ ~(i + 1 <= 1) /\ i + 1 - 1 = i
      BY <1>1
    <3> QED BY <1>1, <3>1, <3>2, <3>3
  <2> HIDE DEF t, p
  <2>3. Reverse(t) = [i \in 1..m |-> t[m - i + 1]]
    BY <2>1 DEF Reverse
  <2>4. DOMAIN p = 1..m /\ p = [i \in 1..m |-> p[i]]
    BY <2>2, LenProperties
  <2>5. \A i \in 1..m : p[i] = t[m - i + 1]
    <3> TAKE i \in 1..m
    <3>1. CASE i = 1
      BY <1>1, <2>1, <2>2, <3>1
    <3>2. CASE i # 1
      <4> DEFINE j == i - 1
      <4>1. j \in 1..n /\ i = j + 1 /\ m - i + 1 = n - j + 1 /\ n - j + 1 \in 1..n
        BY <1>1, <3>2
      <4> HIDE DEF j, m
      <4> QED BY <1>6, <2>1, <2>2, <4>1
    <3> QED BY <3>1, <3>2
  <2>6. p = [i \in 1..m |-> t[m - i + 1]]
    BY <2>4, <2>5
  <2> QED BY <2>3, <2>6 DEF t, p
<1> QED BY <1>4, <1>5, <1>7, <1>8

(* What EditTimeline sees.                                                *)
Line == undoStack \o Reverse(redoStack)
Trial == IF provisional # None THEN provisional ELSE poisoned

(* The line of edits, and what is before the cursor.                       *)
LEMMA LineFacts ==
  ASSUME IInv
  PROVE  /\ Line \in Seq(Commands) /\ Len(Line) = Len(undoStack) + Len(redoStack)
         /\ Len(undoStack) \in Nat /\ Len(redoStack) \in Nat
         /\ SubSeq(Line, 1, Len(undoStack)) = undoStack
         /\ \A c \in Commands : state[c] = "fresh" => Timeline!New(c)
<1>1. undoStack \in Seq(Commands) /\ redoStack \in Seq(Commands)
  BY DEF IInv, TypeOK
<1>2. /\ Reverse(redoStack) \in Seq(Commands) /\ Len(Reverse(redoStack)) = Len(redoStack)
      /\ Range(Reverse(redoStack)) = Range(redoStack)
  BY <1>1, ReverseFacts
<1>3. /\ Line \in Seq(Commands) /\ Len(Line) = Len(undoStack) + Len(redoStack)
      /\ Len(undoStack) \in Nat /\ Len(redoStack) \in Nat
  <2>1. Len(undoStack) \in Nat /\ Len(redoStack) \in Nat
    BY <1>1, LenProperties
  <2>2. Line \in Seq(Commands) /\ Len(Line) = Len(undoStack) + Len(Reverse(redoStack))
    BY <1>1, <1>2, ConcatProperties DEF Line
  <2> QED BY <1>2, <2>1, <2>2
<1>4. SubSeq(Line, 1, Len(undoStack)) = undoStack
  <2>1. CASE Len(undoStack) = 0
    <3>1. undoStack = <<>>
      BY <1>1, <2>1, EmptySeq
    <3>2. SubSeq(Line, 1, 0) = <<>>
      BY SubSeqEmpty
    <3> QED BY <2>1, <3>1, <3>2
  <2>2. CASE Len(undoStack) # 0
    <3>1. 1 \in 1..Len(undoStack) /\ Len(undoStack) \in 1..Len(undoStack)
      BY <1>3, <2>2
    <3> QED BY <1>1, <1>2, <3>1, SubSeqOfConcat1, SubSeqFull DEF Line
  <2> QED BY <2>1, <2>2
<1>5. ASSUME NEW c \in Commands, state[c] = "fresh" PROVE Timeline!New(c)
  <2>1. c \notin Range(undoStack) \union Range(redoStack)
    BY <1>5, FreshIsNowhere DEF Recorded
  <2>2. Range(Line) = Range(undoStack) \union Range(redoStack)
    BY <1>1, <1>2, RangeConcatenation DEF Line
  <2>3. \A i \in DOMAIN Line : Line[i] # c
    BY <2>1, <2>2 DEF Range
  <2> QED BY <2>3 DEF Timeline!New, Line
<1> QED BY <1>3, <1>4, <1>5

(* Moving the top of one stack to the other moves the cursor alone.        *)
LEMMA LineStays ==
  ASSUME NEW u \in Seq(Commands), NEW r \in Seq(Commands), NEW c \in Commands
  PROVE  Append(u, c) \o Reverse(r) = u \o Reverse(Append(r, c))
<1>1. Reverse(r) \in Seq(Commands) /\ <<c>> \in Seq(Commands)
  BY ReverseFacts
<1>2. (u \o <<c>>) \o Reverse(r) = u \o (<<c>> \o Reverse(r))
  BY <1>1, ConcatAssociative
<1>3. Append(u, c) = u \o <<c>>
  BY AppendIsConcat
<1>4. Reverse(Append(r, c)) = <<c>> \o Reverse(r)
  BY ReverseFacts
<1> QED BY <1>2, <1>3, <1>4

(* An empty history shows an empty line of edits.                          *)
LEMMA InitImplements == Init => Timeline!Init
<1> SUFFICES ASSUME Init PROVE Timeline!Init
  OBVIOUS
<1>1. undoStack = <<>> /\ redoStack = <<>> /\ provisional = None /\ poisoned = None
  BY DEF Init
<1>2. <<>> \in Seq(Commands) /\ Len(<<>>) = 0 /\ <<>> \o <<>> = <<>>
  BY EmptySeq, ConcatEmptySeq
<1>3. Reverse(<<>>) = <<>>
  <2>1. Reverse(<<>>) \in Seq(Commands) /\ Len(Reverse(<<>>)) = 0
    BY <1>2, ReverseFacts
  <2> QED BY <2>1, EmptySeq
<1> QED BY <1>1, <1>2, <1>3 DEF Timeline!Init

(* Every step of the history is a step of the timeline, or none.           *)
LEMMA StepImplements ==
  ASSUME IInv, [Next]_vars
  PROVE  [Timeline!Next]_<<Line, Len(undoStack), Trial>>
<1> DEFINE Stays == UNCHANGED <<Line, Len(undoStack), Trial>>
<1>1. /\ undoStack \in Seq(Commands) /\ redoStack \in Seq(Commands)
      /\ Len(undoStack) \in Nat /\ Len(redoStack) \in Nat
      /\ undoStack = <<>> <=> Len(undoStack) = 0
      /\ redoStack = <<>> <=> Len(redoStack) = 0
      /\ None \notin Commands
      /\ provisional \in Commands \union {None} /\ poisoned \in Commands \union {None}
  BY LenProperties, EmptySeq, CommandKinds DEF IInv, TypeOK
<1>2. /\ provisional # None => poisoned = None /\ unpublished = "nothing"
      /\ poisoned # None => unpublished = "nothing"
  BY DEF IInv, OneAtATime
<1>3. /\ Len(Line) = Len(undoStack) + Len(redoStack)
      /\ SubSeq(Line, 1, Len(undoStack)) = undoStack
      /\ \A c \in Commands : state[c] = "fresh" => Timeline!New(c)
  BY LineFacts
<1>4. /\ Reverse(<<>>) = <<>> /\ Len(<<>>) = 0
      /\ \A s \in Seq(Commands) : s \o <<>> = s
  <2>1. <<>> \in Seq(Commands) /\ Len(<<>>) = 0
    BY EmptySeq
  <2>2. Reverse(<<>>) \in Seq(Commands) /\ Len(Reverse(<<>>)) = 0
    BY <2>1, ReverseFacts
  <2> QED BY <2>1, <2>2, EmptySeq, ConcatEmptySeq
<1>5. CASE UNCHANGED <<stacks, slots>>
  BY <1>5 DEF stacks, slots, Line, Trial
<1>6. ASSUME NEW c \in Commands, ExecuteNew(c)
      PROVE  UNCHANGED <<stacks, slots>> \/ Timeline!Do(c)
  <2>1. CASE ExecuteFails(c) /\ UNCHANGED stacks
    BY <1>6, <2>1 DEF ExecuteNew
  <2>2. CASE Executes(c) /\ undoStack' = Append(undoStack, c) /\ redoStack' = <<>>
    <3>1. state[c] = "fresh" /\ provisional = None /\ poisoned = None /\ UNCHANGED slots
      BY <1>6, <2>2 DEF ExecuteNew, Executes, Moves, Idle
    <3>2. Append(undoStack, c) \in Seq(Commands) /\ Len(Append(undoStack, c)) = Len(undoStack) + 1
      BY <1>1, PushFacts
    <3>3. Line' = Append(undoStack, c) /\ Len(undoStack') = Len(undoStack) + 1
      BY <1>4, <2>2, <3>2 DEF Line
    <3>4. Timeline!New(c) /\ Trial = None /\ Trial' = Trial
      BY <1>3, <3>1 DEF Trial, slots
    <3> QED BY <1>3, <3>3, <3>4 DEF Timeline!Do, Timeline!Record, Line, Trial
  <2> QED BY <1>6, <2>1, <2>2 DEF ExecuteNew
<1>7. ASSUME NEW c \in Commands, BeginTransaction(c)
      PROVE  UNCHANGED <<stacks, slots>> \/ Timeline!Try(c)
  <2>1. CASE ExecuteFails(c) /\ UNCHANGED provisional
    BY <1>7, <2>1 DEF BeginTransaction, slots
  <2>2. CASE Executes(c) /\ provisional' = c
    <3>1. state[c] = "fresh" /\ provisional = None /\ poisoned = None /\ UNCHANGED stacks
      BY <1>7, <2>2 DEF BeginTransaction, Executes, Moves, Idle
    <3>2. Timeline!New(c) /\ Trial = None /\ Trial' = c
      BY <1>1, <1>3, <2>2, <3>1 DEF Trial
    <3>3. Line' = Line /\ Len(undoStack') = Len(undoStack)
      BY <3>1 DEF Line, stacks
    <3> QED BY <3>2, <3>3 DEF Timeline!Try, Line, Trial
  <2> QED BY <1>7, <2>1, <2>2 DEF BeginTransaction
<1>8. CASE Commit
  <2>1. /\ provisional \in Commands /\ poisoned = None /\ provisional' = None /\ poisoned' = None
        /\ undoStack' = Append(undoStack, provisional) /\ redoStack' = <<>>
    BY <1>1, <1>2, <1>8 DEF Commit
  <2>2. /\ Append(undoStack, provisional) \in Seq(Commands)
        /\ Len(Append(undoStack, provisional)) = Len(undoStack) + 1
    BY <1>1, <2>1, PushFacts
  <2>3. Line' = Append(undoStack, provisional) /\ Len(undoStack') = Len(undoStack) + 1
    BY <1>4, <2>1, <2>2 DEF Line
  <2>4. Trial = provisional /\ Trial # None /\ Trial' = None
    BY <1>1, <2>1 DEF Trial
  <2>5. Timeline!Accept
    BY <1>3, <2>3, <2>4 DEF Timeline!Accept, Timeline!Record, Line, Trial
  <2> QED BY <2>5 DEF Timeline!Next
<1>9. ASSUME UNCHANGED stacks, provisional' = None, poisoned' = None, Trial # None
      PROVE  Timeline!Reject
  <2>1. Line' = Line /\ Len(undoStack') = Len(undoStack) /\ Trial' = None
    BY <1>9 DEF Line, Trial, stacks
  <2> QED BY <1>9, <2>1 DEF Timeline!Reject, Line, Trial
<1>10. CASE Abort
  <2>1. CASE Undoes(provisional) /\ UNCHANGED poisoned
    BY <1>2, <1>9, <1>10, <2>1 DEF Abort, Trial, Timeline!Next
  <2>2. CASE Fails(provisional) /\ poisoned' = provisional
    <3>1. Stays
      BY <1>10, <2>2 DEF Abort, Line, Trial, stacks
    <3> QED BY <3>1
  <2> QED BY <1>10, <2>1, <2>2 DEF Abort
<1>11. CASE Recover
  <2>1. CASE Undoes(poisoned) /\ poisoned' = None
    BY <1>2, <1>9, <1>11, <2>1 DEF Recover, Trial, Timeline!Next
  <2>2. CASE Fails(poisoned) /\ UNCHANGED poisoned
    BY <1>5, <1>11, <2>2 DEF Recover, slots
  <2> QED BY <1>11, <2>1, <2>2 DEF Recover
<1>12. ASSUME provisional = None, poisoned = None, UNCHANGED slots, undoStack # <<>>,
              undoStack' = Front(undoStack), redoStack' = Append(redoStack, Last(undoStack))
       PROVE  Timeline!Back
  <2>1. /\ undoStack' \in Seq(Commands) /\ Last(undoStack) \in Commands
        /\ undoStack = Append(undoStack', Last(undoStack)) /\ Len(undoStack') = Len(undoStack) - 1
    BY <1>1, <1>12, PopFacts DEF Front, Last
  <2>2. Line' = Line
    <3>1. Append(undoStack', Last(undoStack)) \o Reverse(redoStack)
            = undoStack' \o Reverse(Append(redoStack, Last(undoStack)))
      BY <1>1, <2>1, LineStays
    <3> QED BY <1>12, <2>1, <3>1 DEF Line
  <2>3. Trial = None /\ Trial' = None /\ Len(undoStack) > 0
    BY <1>1, <1>12 DEF Trial, slots
  <2> QED BY <2>1, <2>2, <2>3 DEF Timeline!Back, Line, Trial
<1>13. ASSUME provisional = None, poisoned = None, UNCHANGED slots, redoStack # <<>>,
              redoStack' = Front(redoStack), undoStack' = Append(undoStack, Last(redoStack))
       PROVE  Timeline!Forward
  <2>1. /\ redoStack' \in Seq(Commands) /\ Last(redoStack) \in Commands
        /\ redoStack = Append(redoStack', Last(redoStack))
    BY <1>1, <1>13, PopFacts DEF Front, Last
  <2>2. Len(undoStack') = Len(undoStack) + 1
    BY <1>1, <1>13, <2>1, PushFacts
  <2>3. Line' = Line
    <3>1. Append(undoStack, Last(redoStack)) \o Reverse(redoStack')
            = undoStack \o Reverse(Append(redoStack', Last(redoStack)))
      BY <1>1, <2>1, LineStays
    <3> QED BY <1>13, <2>1, <3>1 DEF Line
  <2>4. Trial = None /\ Trial' = None /\ Len(undoStack) < Len(Line)
    BY <1>1, <1>3, <1>13 DEF Trial, slots
  <2> QED BY <2>2, <2>3, <2>4 DEF Timeline!Forward, Line, Trial
<1>14. CASE Undo
  <2>1. provisional = None /\ poisoned = None /\ UNCHANGED slots /\ undoStack # <<>>
    BY <1>14 DEF Undo, Idle
  <2> QED BY <1>5, <1>12, <1>14, <2>1 DEF Undo, Timeline!Next
<1>15. CASE Redo
  <2>1. provisional = None /\ poisoned = None /\ UNCHANGED slots /\ redoStack # <<>>
    BY <1>15 DEF Redo, Idle
  <2> QED BY <1>5, <1>13, <1>15, <2>1 DEF Redo, Timeline!Next
<1>16. CASE RollbackLastUndo
  <2>1. provisional = None /\ poisoned = None /\ UNCHANGED slots /\ redoStack # <<>>
    BY <1>2, <1>16 DEF RollbackLastUndo
  <2> QED BY <1>5, <1>13, <1>16, <2>1 DEF RollbackLastUndo, Timeline!Next
<1>17. CASE RollbackLastRedo
  <2>1. provisional = None /\ poisoned = None /\ UNCHANGED slots /\ undoStack # <<>>
    BY <1>2, <1>17 DEF RollbackLastRedo
  <2> QED BY <1>5, <1>12, <1>17, <2>1 DEF RollbackLastRedo, Timeline!Next
<1>18. CASE Clear
  <2>1. undoStack' = <<>> /\ redoStack' = <<>> /\ Trial = None /\ Trial' = Trial
    BY <1>18 DEF Clear, Idle, Trial, slots
  <2>2. Line' = <<>> /\ Len(undoStack') = 0
    <3>1. <<>> \o <<>> = <<>>
      BY EmptySeq, ConcatEmptySeq
    <3> QED BY <1>4, <2>1, <3>1 DEF Line
  <2> QED BY <2>1, <2>2 DEF Timeline!Forget, Timeline!Next, Line, Trial
<1>19. CASE Publish \/ UNCHANGED vars
  BY <1>5, <1>19 DEF Publish, vars
<1> QED BY <1>5, <1>6, <1>7, <1>8, <1>10, <1>11, <1>14, <1>15, <1>16, <1>17, <1>18, <1>19
        DEF Next, Timeline!Next

(* To the user there is one line of edits and a cursor, for any commands.  *)
THEOREM HistoryImplementsTimeline == Spec => ImplementsTimeline
<1>1. Init => Timeline!Init
  BY InitImplements
<1>2. IInv /\ [Next]_vars => [Timeline!Next]_<<Line, Len(undoStack), Trial>>
  BY StepImplements
<1> QED BY <1>1, <1>2, IInvHolds, PTL DEF Spec, ImplementsTimeline, Timeline!Spec, Timeline!vars, Line, Trial

-----------------------------------------------------------------------------
(* A group *)

GroupTypeOK ==
  /\ children \in Seq({Fresh, Done, Undone})
  /\ status \in {Fresh, Done, Undone, Faulted}
  /\ held \in Seq(DOMAIN children)

GroupIInv == GroupTypeOK /\ AllOrNothing /\ InsertionOrder

-----------------------------------------------------------------------------
(* The numbers of the children *)

Count(n) == [i \in 1..n |-> i]

(* A function over 1..n is a sequence of n elements.                       *)
LEMMA FunctionIsSeq ==
  ASSUME NEW S, NEW n \in Nat, NEW f \in [1..n -> S]
  PROVE  f \in Seq(S) /\ Len(f) = n /\ DOMAIN f = 1..n
<1>1. f \in Seq(S)
  BY SeqDef
<1> QED BY <1>1, LenProperties

(* A sequence with no members is empty.                                    *)
LEMMA NoMembers ==
  ASSUME NEW S, NEW s \in Seq(S)
  PROVE  Range(s) = {} <=> s = <<>>
<1>1. DOMAIN s = 1..Len(s) /\ Len(s) \in Nat
  BY LenProperties
<1>2. Len(s) = 0 <=> s = <<>>
  BY EmptySeq
<1>3. ASSUME Len(s) # 0 PROVE s[1] \in Range(s)
  <2>1. 1 \in DOMAIN s
    BY <1>1, <1>3
  <2> QED BY <2>1 DEF Range
<1>4. ASSUME Len(s) = 0 PROVE Range(s) = {}
  <2>1. DOMAIN s = {}
    BY <1>1, <1>4
  <2> QED BY <2>1 DEF Range
<1> QED BY <1>2, <1>3, <1>4

(* Counting to n passes each number once, in order.                        *)
LEMMA CountFacts ==
  ASSUME NEW n \in Nat
  PROVE  /\ Count(n) \in Seq(1..n) /\ Len(Count(n)) = n /\ DOMAIN Count(n) = 1..n
         /\ \A i \in 1..n : Count(n)[i] = i
         /\ Range(Count(n)) = 1..n
         /\ Increasing(Count(n))
<1>1. Count(n) \in [1..n -> 1..n]
  BY DEF Count
<1>2. Count(n) \in Seq(1..n) /\ Len(Count(n)) = n /\ DOMAIN Count(n) = 1..n
  BY <1>1, FunctionIsSeq
<1>3. \A i \in 1..n : Count(n)[i] = i
  BY DEF Count
<1>4. Range(Count(n)) = 1..n
  BY <1>2, <1>3 DEF Range
<1>5. Increasing(Count(n))
  BY <1>2, <1>3 DEF Increasing
<1> QED BY <1>2, <1>3, <1>4, <1>5

(* The children up to the i-th and those after it.                         *)
LEMMA SliceFacts ==
  ASSUME NEW n \in Nat, NEW i \in 0..n
  PROVE  LET upto  == SubSeq(Count(n), 1, i)
             after == SubSeq(Count(n), i + 1, n)
         IN  /\ upto \in Seq(1..n) /\ after \in Seq(1..n)
             /\ upto = Count(i)
             /\ Range(upto) = 1..i /\ Range(after) = (i + 1)..n
             /\ Count(n) = upto \o after
<1> DEFINE upto  == SubSeq(Count(n), 1, i)
           after == SubSeq(Count(n), i + 1, n)
<1>1. Count(n) \in Seq(1..n) /\ Len(Count(n)) = n /\ \A k \in 1..n : Count(n)[k] = k
  BY CountFacts
<1>2. /\ upto \in Seq(1..n) /\ Len(upto) = i
      /\ \A k \in 1..i : upto[k] = k
  <2>1. \A k \in 1..i : Count(n)[k] \in 1..n
    BY <1>1
  <2>2. /\ upto \in Seq(1..n) /\ Len(upto) = IF 1 <= i THEN i - 1 + 1 ELSE 0
        /\ \A k \in 1..(i - 1 + 1) : upto[k] = Count(n)[1 + k - 1]
    BY <2>1, SubSeqProperties
  <2> QED BY <1>1, <2>2
<1>3. /\ after \in Seq(1..n) /\ Len(after) = n - i
      /\ \A k \in 1..(n - i) : after[k] = i + k
  <2>1. \A k \in (i + 1)..n : Count(n)[k] \in 1..n
    BY <1>1
  <2>2. /\ after \in Seq(1..n) /\ Len(after) = IF i + 1 <= n THEN n - (i + 1) + 1 ELSE 0
        /\ \A k \in 1..(n - (i + 1) + 1) : after[k] = Count(n)[i + 1 + k - 1]
    BY <2>1, SubSeqProperties
  <2> QED BY <1>1, <2>2
<1>4. upto = Count(i)
  <2>1. Count(i) \in Seq(1..i) /\ Len(Count(i)) = i /\ \A k \in 1..i : Count(i)[k] = k
    BY CountFacts
  <2>2. Count(i) \in Seq(1..n)
    BY <2>1, SeqMonotonic
  <2> QED BY <1>2, <2>1, <2>2, SeqEqual
<1>5. Range(upto) = 1..i
  <2>1. i \in Nat /\ Range(Count(i)) = 1..i
    BY CountFacts
  <2> QED BY <1>4, <2>1
<1>6. Range(after) = (i + 1)..n
  <2>1. Range(after) = {after[k] : k \in 1..Len(after)}
    BY <1>3, RangeEquality
  <2>2. ASSUME NEW j \in (i + 1)..n PROVE \E k \in 1..(n - i) : j = i + k
    <3>1. j - i \in 1..(n - i) /\ j = i + (j - i)
      OBVIOUS
    <3> QED BY <3>1
  <2>3. \A k \in 1..(n - i) : i + k \in (i + 1)..n
    OBVIOUS
  <2>4. Range(after) = {after[k] : k \in 1..(n - i)}
    BY <1>3, <2>1
  <2> HIDE DEF after
  <2>5. \A j : j \in Range(after) <=> j \in (i + 1)..n
    <3>1. \A j : j \in Range(after) <=> \E k \in 1..(n - i) : j = i + k
      BY <1>3, <2>4
    <3> QED BY <2>2, <2>3, <3>1
  <2> QED BY <2>5
<1>7. Count(n) = upto \o after
  <2>1. i \in (1 - 1)..Len(Count(n)) /\ n \in i..Len(Count(n)) /\ 1 \in 1..(Len(Count(n)) + 1)
    BY <1>1
  <2>2. upto \o after = SubSeq(Count(n), 1, n)
    BY <1>1, <2>1, ConcatAdjacentSubSeq
  <2> QED BY <1>1, <2>2, SubSeqFull
<1> QED BY <1>2, <1>3, <1>4, <1>5, <1>6, <1>7

-----------------------------------------------------------------------------
(* What the loops leave in the project *)

(* A loop that succeeds on an empty project makes every edit.              *)
LEMMA ForwardMakesAll ==
  ASSUME NEW n \in Nat
  PROVE  Applied(<<>>, Count(n), {}) = Count(n)
<1>1. Count(n) \in Seq(1..n) /\ Range(Count(n)) \ {} = 1..n /\ \A i \in 1..Len(Count(n)) : Count(n)[i] \in 1..n
  BY CountFacts
<1>2. Kept(Count(n), 1..n) = Count(n)
  BY <1>1, KeptAll
<1> QED BY <1>1, <1>2, ConcatEmptySeq DEF Applied

(* Backed out at child i, it leaves the edits that would not come out.     *)
LEMMA BackingOut ==
  ASSUME NEW n \in Nat, NEW i \in 1..n, NEW stuck \in SUBSET (1..(i - 1))
  PROVE  LET upto == SubSeq(Count(n), 1, i - 1)
             left == Withdrawn(Applied(<<>>, upto, {}), upto, stuck)
         IN  left \in Seq(1..n) /\ Range(left) = stuck /\ Increasing(left)
<1> DEFINE m    == i - 1
           upto == SubSeq(Count(n), 1, m)
           left == Withdrawn(Applied(<<>>, upto, {}), upto, stuck)
<1>1. m \in 0..n /\ m \in Nat
  OBVIOUS
<1> HIDE DEF m
<1>2. upto = Count(m) /\ upto \in Seq(1..n) /\ Range(upto) = 1..m
  BY <1>1, SliceFacts
<1>3. Increasing(upto)
  BY <1>1, <1>2, CountFacts
<1>4. Applied(<<>>, upto, {}) = upto
  BY <1>1, <1>2, ForwardMakesAll
<1>5. left = Kept(upto, stuck)
  <2>1. stuck \subseteq 1..m
    BY DEF m
  <2>2. 1..m \ (1..m \ stuck) = stuck
    BY <2>1
  <2> QED BY <1>2, <1>4, <2>2 DEF Withdrawn
<1> HIDE DEF upto, left
<1>6. left \in Seq(1..n)
  BY <1>2, <1>5, KeptType
<1>7. Range(left) = stuck
  <2>1. Range(left) = 1..m \intersect stuck
    BY <1>2, <1>5, KeptMembers
  <2> QED BY <2>1 DEF m
<1>8. Increasing(left)
  <2>1. upto \in Seq(Int)
    BY <1>2, SeqMonotonic
  <2> QED BY <1>3, <1>5, <2>1, KeptIncreasing
<1> QED BY <1>6, <1>7, <1>8 DEF left, upto, m

(* An undo that succeeds withdraws every edit.                             *)
LEMMA UndoWithdrawsAll ==
  ASSUME NEW n \in Nat
  PROVE  Withdrawn(Count(n), Count(n), {}) = <<>>
<1>1. Count(n) \in Seq(1..n)
  BY CountFacts
<1>2. Withdrawn(Count(n), Count(n), {}) = Kept(Count(n), {})
  <2>1. Range(Count(n)) \ (Range(Count(n)) \ {}) = {}
    OBVIOUS
  <2> QED BY <2>1 DEF Withdrawn
<1>3. Kept(Count(n), {}) \in Seq(1..n) /\ Range(Kept(Count(n), {})) = {}
  BY <1>1, KeptType, KeptMembers
<1> QED BY <1>2, <1>3, NoMembers

(* Stopped at child i, it withdraws the edits after it, and puts back in   *)
(* order those that would go back.                                         *)
LEMMA PuttingBack ==
  ASSUME NEW n \in Nat, NEW i \in 1..n, NEW stuck \in SUBSET ((i + 1)..n)
  PROVE  LET after == SubSeq(Count(n), i + 1, n)
             left  == Applied(Withdrawn(Count(n), after, {}), after, stuck)
         IN  /\ left \in Seq(1..n)
             /\ Range(left) = 1..n \ stuck
             /\ Increasing(left)
             /\ stuck = {} => left = Count(n)
<1> DEFINE all   == Count(n)
           upto  == SubSeq(all, 1, i)
           after == SubSeq(all, i + 1, n)
           left  == Applied(Withdrawn(all, after, {}), after, stuck)
           Rest  == 1..n \ stuck
<1>1. i \in 0..n
  OBVIOUS
<1>2. /\ upto \in Seq(1..n) /\ after \in Seq(1..n) /\ all = upto \o after
      /\ Range(upto) = 1..i /\ Range(after) = (i + 1)..n
  BY <1>1, SliceFacts
<1>3. /\ all \in Seq(1..n) /\ Range(all) = 1..n /\ Increasing(all)
      /\ Len(all) = n /\ \A k \in 1..n : all[k] \in 1..n
  BY CountFacts
<1> HIDE DEF all, upto, after
<1>4. /\ \A k \in 1..Len(upto) : upto[k] \in 1..i
      /\ \A k \in 1..Len(after) : after[k] \in (i + 1)..n
  BY <1>2, RangeEquality
<1>5. Withdrawn(all, after, {}) = upto
  <2>1. Range(all) \ (Range(after) \ {}) = 1..i
    BY <1>2, <1>3
  <2>2. Withdrawn(all, after, {}) = Kept(upto, 1..i) \o Kept(after, 1..i)
    <3>1. Withdrawn(all, after, {}) = Kept(all, 1..i)
      BY <2>1 DEF Withdrawn
    <3>2. \A S : Kept(upto \o after, S) = Kept(upto, S) \o Kept(after, S)
      BY <1>2, KeptConcat
    <3> QED BY <1>2, <3>1, <3>2
  <2>3. Kept(upto, 1..i) = upto
    BY <1>2, <1>4, KeptAll
  <2>4. Kept(after, 1..i) = <<>>
    <3>1. Kept(after, 1..i) \in Seq(1..n)
      BY <1>2, KeptType
    <3>2. Range(Kept(after, 1..i)) = {}
      <4>1. Range(Kept(after, 1..i)) = (i + 1)..n \intersect 1..i
        BY <1>2, KeptMembers
      <4> QED BY <4>1
    <3> QED BY <3>1, <3>2, NoMembers
  <2> QED BY <1>2, <2>2, <2>3, <2>4, ConcatEmptySeq
<1>6. left = Kept(all, Rest)
  <2>1. Kept(upto, Rest) = upto
    <3>1. \A k \in 1..Len(upto) : upto[k] \in Rest
      BY <1>4
    <3> HIDE DEF Rest
    <3> QED BY <1>2, <3>1, KeptAll
  <2>2. Kept(after, Range(after) \ stuck) = Kept(after, Rest)
    <3> DEFINE Those == Range(after) \ stuck
    <3>1. \A k \in 1..Len(after) : after[k] \in Those <=> after[k] \in Rest
      BY <1>2, <1>4
    <3> HIDE DEF Rest, Those
    <3>2. Kept(after, Those) = Kept(after, Rest)
      BY <1>2, <3>1, KeptSame
    <3> QED BY <3>2 DEF Those
  <2> HIDE DEF Rest
  <2>3. Kept(all, Rest) = Kept(upto, Rest) \o Kept(after, Rest)
    BY <1>2, KeptConcat
  <2> QED BY <1>5, <2>1, <2>2, <2>3 DEF Applied
<1>7. left \in Seq(1..n)
  BY <1>3, <1>6, KeptType
<1>8. Range(left) = Rest
  <2>1. Range(left) = 1..n \intersect Rest
    BY <1>3, <1>6, KeptMembers, SMTT(30)
  <2> QED BY <2>1
<1>9. Increasing(left)
  <2>1. all \in Seq(Int)
    BY <1>3, SeqMonotonic
  <2> QED BY <1>3, <1>6, <2>1, KeptIncreasing
<1>10. stuck = {} => left = all
  BY <1>3, <1>6, KeptAll
<1> QED BY <1>7, <1>8, <1>9, <1>10 DEF all, upto, after

-----------------------------------------------------------------------------
(* The inductive invariant *)

(* The children a call has renamed are as many as before.                  *)
LEMMA ChildrenFacts ==
  ASSUME GroupTypeOK
  PROVE  /\ Len(children) \in Nat
         /\ DOMAIN children = 1..Len(children)
         /\ All = Count(Len(children))
         /\ All \in Seq(DOMAIN children)
         /\ Range(All) = DOMAIN children
         /\ Len(All) = Len(children)
         /\ Increasing(All)
         /\ \A i \in DOMAIN children : children[i] \in {Fresh, Done, Undone}
<1>1. /\ Len(children) \in Nat /\ DOMAIN children = 1..Len(children)
      /\ \A i \in DOMAIN children : children[i] \in {Fresh, Done, Undone}
  BY LenProperties, ElementOfSeq DEF GroupTypeOK
<1>2. All = Count(Len(children))
  BY <1>1 DEF All, Count
<1> QED BY <1>1, <1>2, CountFacts

(* The children a fresh group is built from are the ones it executes.      *)
LEMMA ChildrenRenamed ==
  ASSUME GroupTypeOK, children' \in [DOMAIN children -> {Fresh, Done, Undone}]
  PROVE  /\ children' \in Seq({Fresh, Done, Undone})
         /\ DOMAIN children' = DOMAIN children
         /\ Len(children') = Len(children)
         /\ All' = All
<1>1. Len(children) \in Nat /\ DOMAIN children = 1..Len(children)
  BY ChildrenFacts
<1>2. children' \in Seq({Fresh, Done, Undone}) /\ Len(children') = Len(children)
  BY <1>1, FunctionIsSeq
<1>3. DOMAIN children' = DOMAIN children
  OBVIOUS
<1> QED BY <1>2, <1>3 DEF All

(* A group nothing was executed of satisfies the invariant.                *)
LEMMA InitGroupIInv == GroupInit => GroupIInv
<1> SUFFICES ASSUME GroupInit PROVE GroupIInv
  OBVIOUS
<1>1. children \in Seq({Fresh, Done, Undone}) /\ held \in Seq(DOMAIN children)
      /\ Len(children) = 0 /\ Len(held) = 0
  BY EmptySeq DEF GroupInit
<1>2. DOMAIN children = {} /\ DOMAIN held = {}
  BY <1>1, LenProperties
<1>3. held = All
  BY <1>2 DEF GroupInit, All
<1> QED BY <1>1, <1>2, <1>3 DEF GroupInit, GroupIInv, GroupTypeOK, AllOrNothing, InsertionOrder, Increasing, Fresh, Done, Undone, Faulted

(* AddCommand adds a child that has made no edit.                          *)
LEMMA AddCommandIInv ==
  ASSUME GroupIInv, AddCommand
  PROVE  GroupIInv' /\ DOMAIN children' = DOMAIN children \union {Len(children) + 1}
<1> DEFINE n == Len(children)
<1>1. n \in Nat /\ DOMAIN children = 1..n
  BY ChildrenFacts DEF GroupIInv
<1>2. /\ children' \in Seq({Fresh, Done, Undone}) /\ Len(children') = n + 1
      /\ \A j \in 1..n : children'[j] = children[j]
      /\ children'[n + 1] = Fresh
  BY AppendProperties DEF GroupIInv, GroupTypeOK, AddCommand
<1>3. DOMAIN children' = 1..(n + 1)
  BY <1>2, LenProperties
<1>4. held = <<>> /\ held' = <<>> /\ status = Fresh /\ status' = Fresh
  BY DEF GroupIInv, AllOrNothing, AddCommand, Fresh, Undone
<1>5. Range(<<>>) = {} /\ <<>> \in Seq(DOMAIN children') /\ Len(<<>>) = 0
  BY EmptySeq, NoMembers
<1>6. GroupTypeOK'
  BY <1>2, <1>4, <1>5 DEF GroupTypeOK
<1>7. AllOrNothing'
  <2>1. ASSUME NEW j \in DOMAIN children' PROVE children'[j] # Done
    <3>1. CASE j = n + 1
      BY <1>2, <3>1 DEF Fresh, Done
    <3>2. CASE j # n + 1
      <4>1. j \in DOMAIN children /\ children'[j] = children[j]
        BY <1>1, <1>2, <1>3, <3>2
      <4> QED BY <4>1, <1>4, <1>5 DEF GroupIInv, AllOrNothing
    <3> QED BY <3>1, <3>2
  <2> QED BY <2>1, <1>4, <1>5 DEF AllOrNothing, Fresh, Done
<1>8. InsertionOrder'
  BY <1>4, <1>5 DEF InsertionOrder, Increasing
<1> QED BY <1>1, <1>3, <1>6, <1>7, <1>8 DEF GroupIInv

(* Execute and Redo make the whole edit of a group that had none.          *)
LEMMA ForwardIInv ==
  ASSUME GroupIInv, NEW from \in {Fresh, Undone}, Forward(from)
  PROVE  GroupIInv' /\ All' = All /\ held = <<>> /\ held' = All
<1>1. held = <<>>
  BY DEF GroupIInv, AllOrNothing, Forward
<1>2. /\ children' \in [DOMAIN children -> {Fresh, Done, Undone}]
      /\ \A j \in DOMAIN children : children'[j] = Done
  BY DEF Forward
<1>3. /\ children' \in Seq({Fresh, Done, Undone}) /\ All' = All
      /\ DOMAIN children' = DOMAIN children
  BY <1>2, ChildrenRenamed DEF GroupIInv
<1>4. /\ Len(children) \in Nat /\ All = Count(Len(children)) /\ Increasing(All)
      /\ All \in Seq(DOMAIN children) /\ Range(All) = DOMAIN children
  BY ChildrenFacts DEF GroupIInv
<1>5. held' = All /\ status' = Done
  BY <1>1, <1>4, ForwardMakesAll DEF Forward
<1>6. GroupTypeOK'
  BY <1>3, <1>4, <1>5 DEF GroupTypeOK
<1>7. AllOrNothing'
  BY <1>2, <1>3, <1>4, <1>5 DEF AllOrNothing, Fresh, Done, Undone
<1>8. InsertionOrder'
  BY <1>4, <1>5 DEF InsertionOrder
<1> QED BY <1>1, <1>3, <1>5, <1>6, <1>7, <1>8 DEF GroupIInv

(* ExecuteFails and RedoFails leave the edits that would not come out, and *)
(* fault when there are any.                                               *)
LEMMA ForwardFailsIInv ==
  ASSUME GroupIInv, NEW from \in {Fresh, Undone}, NEW rolledBack \in {Undone, Faulted},
         NEW i \in DOMAIN children, NEW stuck \in SUBSET (1..(i - 1)),
         ForwardFails(from, i, stuck, rolledBack)
  PROVE  /\ GroupIInv' /\ All' = All /\ held = <<>>
         /\ Range(held') = stuck /\ held' # All
         /\ stuck = {} <=> held' = <<>>
<1> DEFINE n == Len(children)
<1>1. held = <<>>
  BY DEF GroupIInv, AllOrNothing, ForwardFails
<1>2. /\ n \in Nat /\ DOMAIN children = 1..n /\ All = Count(n) /\ Len(All) = n
      /\ Range(All) = DOMAIN children
      /\ \A j \in DOMAIN children : children[j] \in {Fresh, Done, Undone}
  BY ChildrenFacts DEF GroupIInv
<1>3. /\ held' \in Seq(1..n) /\ Range(held') = stuck /\ Increasing(held')
  BY <1>1, <1>2, BackingOut DEF ForwardFails, Upto
<1>4. \A j \in DOMAIN children : children[j] # Done
  <2>1. Range(<<>>) = {}
    BY EmptySeq, NoMembers
  <2> QED BY <1>1, <2>1 DEF GroupIInv, AllOrNothing
<1>5. /\ children' = [j \in DOMAIN children |->
             IF j < i THEN IF j \in stuck THEN Done ELSE Undone ELSE children[j]]
      /\ status' = IF stuck = {} THEN rolledBack ELSE Faulted
  BY DEF ForwardFails
<1>6. /\ children' \in [DOMAIN children -> {Fresh, Done, Undone}]
      /\ \A j \in DOMAIN children : children'[j] = Done <=> j \in stuck
  BY <1>2, <1>4, <1>5 DEF Fresh, Done, Undone
<1>7. /\ children' \in Seq({Fresh, Done, Undone}) /\ All' = All
      /\ DOMAIN children' = DOMAIN children
  BY <1>6, ChildrenRenamed DEF GroupIInv
<1>8. stuck = {} <=> held' = <<>>
  BY <1>3, NoMembers
<1>9. GroupTypeOK'
  BY <1>2, <1>3, <1>5, <1>7 DEF GroupTypeOK, Fresh, Done, Undone
<1>10. AllOrNothing'
  BY <1>3, <1>5, <1>6, <1>7, <1>8 DEF AllOrNothing, Fresh, Done, Undone, Faulted
<1>11. InsertionOrder'
  BY <1>3 DEF InsertionOrder
<1>12. held' # All
  <2>1. i \in Range(All) /\ i \notin stuck
    BY <1>2
  <2> QED BY <2>1, <1>3
<1> QED BY <1>1, <1>3, <1>7, <1>8, <1>9, <1>10, <1>11, <1>12 DEF GroupIInv

(* Undo withdraws the whole edit.                                          *)
LEMMA UndoGroupIInv ==
  ASSUME GroupIInv, UndoGroup
  PROVE  GroupIInv' /\ All' = All /\ held = All /\ held' = <<>>
<1>1. held = All
  BY DEF GroupIInv, AllOrNothing, UndoGroup
<1>2. /\ children' \in [DOMAIN children -> {Fresh, Done, Undone}]
      /\ \A j \in DOMAIN children : children'[j] # Done
  BY DEF UndoGroup, Done, Undone
<1>3. /\ children' \in Seq({Fresh, Done, Undone}) /\ All' = All
      /\ DOMAIN children' = DOMAIN children
  BY <1>2, ChildrenRenamed DEF GroupIInv
<1>4. Len(children) \in Nat /\ All = Count(Len(children))
  BY ChildrenFacts DEF GroupIInv
<1>5. held' = <<>> /\ status' = Undone
  BY <1>1, <1>4, UndoWithdrawsAll DEF UndoGroup
<1>6. Range(<<>>) = {} /\ <<>> \in Seq(DOMAIN children) /\ Len(<<>>) = 0
  BY EmptySeq, NoMembers
<1>7. GroupIInv'
  BY <1>2, <1>3, <1>5, <1>6 DEF GroupIInv, GroupTypeOK, AllOrNothing, InsertionOrder, Increasing, Fresh, Done, Undone
<1> QED BY <1>1, <1>3, <1>5, <1>7

(* UndoFails puts back what will go back, and faults unless all does.      *)
LEMMA UndoGroupFailsIInv ==
  ASSUME GroupIInv, NEW i \in DOMAIN children, NEW stuck \in SUBSET ((i + 1)..Len(children)),
         UndoGroupFails(i, stuck)
  PROVE  /\ GroupIInv' /\ All' = All /\ held = All /\ held' # <<>>
         /\ stuck = {} <=> held' = All
<1> DEFINE n == Len(children)
<1>1. held = All
  BY DEF GroupIInv, AllOrNothing, UndoGroupFails
<1>2. /\ n \in Nat /\ DOMAIN children = 1..n /\ All = Count(n) /\ Len(All) = n
      /\ Range(All) = DOMAIN children
      /\ \A j \in DOMAIN children : children[j] \in {Fresh, Done, Undone}
  BY ChildrenFacts DEF GroupIInv
<1>3. /\ held' \in Seq(1..n) /\ Range(held') = 1..n \ stuck /\ Increasing(held')
      /\ stuck = {} => held' = All
  BY <1>1, <1>2, PuttingBack DEF UndoGroupFails, After
<1>4. \A j \in DOMAIN children : children[j] = Done
  BY <1>1, <1>2 DEF GroupIInv, AllOrNothing
<1>5. /\ children' = [j \in DOMAIN children |-> IF j \in stuck THEN Undone ELSE children[j]]
      /\ status' = IF stuck = {} THEN Done ELSE Faulted
  BY DEF UndoGroupFails
<1>6. /\ children' \in [DOMAIN children -> {Fresh, Done, Undone}]
      /\ \A j \in DOMAIN children : children'[j] = Done <=> j \notin stuck
  BY <1>4, <1>5 DEF Done, Undone
<1>7. /\ children' \in Seq({Fresh, Done, Undone}) /\ All' = All
      /\ DOMAIN children' = DOMAIN children
  BY <1>6, ChildrenRenamed DEF GroupIInv
<1>8. stuck = {} <=> held' = All
  BY <1>2, <1>3
<1>9. held' # <<>>
  <2>1. i \in Range(held')
    BY <1>2, <1>3
  <2> QED BY <2>1, <1>3, NoMembers
<1>10. GroupTypeOK'
  BY <1>2, <1>3, <1>5, <1>7 DEF GroupTypeOK, Fresh, Done, Undone
<1>11. AllOrNothing'
  BY <1>2, <1>3, <1>5, <1>6, <1>7, <1>8 DEF AllOrNothing, Fresh, Done, Undone, Faulted
<1>12. InsertionOrder'
  BY <1>3 DEF InsertionOrder
<1> QED BY <1>1, <1>7, <1>8, <1>9, <1>10, <1>11, <1>12 DEF GroupIInv

(* Every step keeps the invariant.                                         *)
LEMMA NextGroupIInv ==
  ASSUME GroupIInv, [GroupNext]_groupVars
  PROVE  GroupIInv'
<1>1. CASE UNCHANGED groupVars
  BY <1>1 DEF groupVars, GroupIInv, GroupTypeOK, AllOrNothing, InsertionOrder, All, Increasing
<1>2. CASE AddCommand
  BY <1>2, AddCommandIInv
<1>3. CASE ExecuteGroup \/ RedoGroup
  BY <1>3, ForwardIInv DEF ExecuteGroup, RedoGroup
<1>4. CASE UndoGroup
  BY <1>4, UndoGroupIInv
<1>5. ASSUME NEW i \in DOMAIN children, NEW stuck \in SUBSET (1..(i - 1)),
             ExecuteGroupFails(i, stuck) \/ RedoGroupFails(i, stuck)
      PROVE  GroupIInv'
  BY <1>5, ForwardFailsIInv DEF ExecuteGroupFails, RedoGroupFails
<1>6. ASSUME NEW i \in DOMAIN children, NEW stuck \in SUBSET ((i + 1)..Len(children)),
             UndoGroupFails(i, stuck)
      PROVE  GroupIInv'
  BY <1>6, UndoGroupFailsIInv
<1> QED BY <1>1, <1>2, <1>3, <1>4, <1>5, <1>6 DEF GroupNext

(* The invariant holds in every state the group can reach.                 *)
THEOREM GroupIInvHolds == GroupSpec => []GroupIInv
<1>1. GroupInit => GroupIInv
  BY InitGroupIInv
<1>2. GroupIInv /\ [GroupNext]_groupVars => GroupIInv'
  BY NextGroupIInv
<1> QED BY <1>1, <1>2, PTL DEF GroupSpec

(* A group of any size is all or nothing until it faults, and each child   *)
(* stands where the project says, whichever of its calls fail.             *)
THEOREM GroupIsAllOrNothing == GroupSpec => []AllOrNothing
<1>1. GroupIInv => AllOrNothing
  BY DEF GroupIInv
<1> QED BY <1>1, GroupIInvHolds, PTL

(* Even after a fault the project holds the children's edits in insertion  *)
(* order, each once.                                                       *)
THEOREM EditsInInsertionOrder == GroupSpec => []InsertionOrder
<1>1. GroupIInv => InsertionOrder
  BY DEF GroupIInv
<1> QED BY <1>1, GroupIInvHolds, PTL

-----------------------------------------------------------------------------
(* A group is itself a command *)

(* Of a group with children the whole edit is not the empty one.           *)
LEMMA AllIsNotNothing ==
  ASSUME GroupTypeOK
  PROVE  All = <<>> <=> children = <<>>
<1>1. Len(All) = Len(children) /\ All \in Seq(DOMAIN children)
  BY ChildrenFacts
<1> QED BY <1>1, EmptySeq DEF GroupTypeOK

(* A group nothing was executed of is a command nothing was executed of.   *)
LEMMA InitGroupImplements == GroupInit => Contract!Init
<1> SUFFICES ASSUME GroupInit PROVE Contract!Init
  OBVIOUS
<1>1. held = <<>> /\ children = <<>> /\ status = Fresh /\ Fresh # Done
  BY DEF GroupInit, Fresh, Done
<1>2. Effect = "none"
  BY <1>1 DEF Effect
<1> QED BY <1>1, <1>2 DEF Contract!Init, Contract!Fresh, Contract!NoEdit, Fresh

(* What the group holds of its edit, by the project and the state.         *)
LEMMA EffectFacts ==
  ASSUME GroupIInv
  PROVE  /\ status = Done => Effect = "whole"
         /\ held = <<>> /\ status # Done => Effect = "none"
         /\ held # <<>> /\ held # All => Effect = "part"
<1>1. held = All => (held = <<>> <=> children = <<>>)
  BY AllIsNotNothing DEF GroupIInv
<1> QED BY <1>1 DEF Effect, GroupIInv, AllOrNothing

(* Every step of the group is a step of a command, or none.                *)
LEMMA StepGroupImplements ==
  ASSUME GroupIInv, [GroupNext]_groupVars
  PROVE  [Contract!Next]_<<status, Effect>>
<1> USE DEF Contract!Fresh, Contract!Done, Contract!Undone, Contract!Faulted,
            Contract!NoEdit, Contract!WholeEdit, Contract!PartEdit, Contract!Becomes,
            Fresh, Done, Undone, Faulted
<1>1. GroupIInv'
  BY NextGroupIInv
<1>2. /\ status' = Done => Effect' = "whole"
      /\ held' = <<>> /\ status' # Done => Effect' = "none"
      /\ held' # <<>> /\ held' # All' => Effect' = "part"
  <2>1. Effect' = IF held' = All' /\ (children' # <<>> \/ status' = Done) THEN "whole"
                  ELSE IF held' = <<>> THEN "none" ELSE "part"
    BY DEF Effect
  <2>2. held' = All' => (held' = <<>> <=> children' = <<>>)
    <3>1. (All = <<>> <=> children = <<>>)'
      BY <1>1, AllIsNotNothing, PTL DEF GroupIInv
    <3> QED BY <3>1
  <2>3. status' = Done => held' = All'
    BY <1>1 DEF GroupIInv, AllOrNothing
  <2> QED BY <2>1, <2>2, <2>3
<1>3. CASE UNCHANGED groupVars
  BY <1>3 DEF groupVars, Effect, All
<1>4. CASE AddCommand
  <2>1. held = <<>> /\ held' = <<>> /\ status = Fresh /\ status' = Fresh
    BY <1>4 DEF GroupIInv, AllOrNothing, AddCommand
  <2> QED BY <1>2, <2>1, EffectFacts
<1>5. ASSUME NEW from \in {Fresh, Undone}, Forward(from)
      PROVE  Contract!Next
  <2>1. held = <<>> /\ status = from /\ status' = Done
    BY <1>5, ForwardIInv DEF Forward
  <2>2. Effect = "none" /\ Effect' = "whole"
    BY <1>2, <2>1, EffectFacts
  <2> QED BY <2>1, <2>2 DEF Contract!Next, Contract!Execute, Contract!Redo
<1>6. CASE UndoGroup
  <2>1. held' = <<>> /\ status = Done /\ status' = Undone
    BY <1>6, UndoGroupIInv DEF UndoGroup
  <2>2. Effect = "whole" /\ Effect' = "none"
    BY <1>2, <2>1, EffectFacts
  <2> QED BY <2>1, <2>2 DEF Contract!Next, Contract!Undo
<1>7. ASSUME NEW i \in DOMAIN children, NEW stuck \in SUBSET (1..(i - 1)),
             ExecuteGroupFails(i, stuck)
      PROVE  Contract!Next
  <2>1. /\ held = <<>> /\ status = Fresh /\ status' = Faulted
        /\ held' # All' /\ (stuck = {} <=> held' = <<>>)
    BY <1>7, ForwardFailsIInv DEF ExecuteGroupFails, ForwardFails
  <2>2. Effect = "none" /\ Effect' \in {"none", "part"}
    BY <1>2, <2>1, EffectFacts
  <2> QED BY <2>1, <2>2 DEF Contract!Next, Contract!Execute
<1>8. ASSUME NEW i \in DOMAIN children, NEW stuck \in SUBSET (1..(i - 1)),
             RedoGroupFails(i, stuck)
      PROVE  [Contract!Next]_<<status, Effect>>
  <2>1. /\ held = <<>> /\ status = Undone
        /\ status' = IF stuck = {} THEN Undone ELSE Faulted
        /\ held' # All' /\ (stuck = {} <=> held' = <<>>)
    BY <1>8, ForwardFailsIInv DEF RedoGroupFails, ForwardFails
  <2>2. Effect = "none"
    BY <2>1, EffectFacts
  <2>3. CASE stuck = {}
    BY <1>2, <2>1, <2>2, <2>3
  <2>4. CASE stuck # {}
    <3>1. status' = Faulted /\ Effect' = "part"
      BY <1>2, <2>1, <2>4
    <3> QED BY <2>1, <2>2, <3>1 DEF Contract!Next, Contract!Redo
  <2> QED BY <2>3, <2>4
<1>9. ASSUME NEW i \in DOMAIN children, NEW stuck \in SUBSET ((i + 1)..Len(children)),
             UndoGroupFails(i, stuck)
      PROVE  [Contract!Next]_<<status, Effect>>
  <2>1. /\ held' # <<>> /\ status = Done /\ All' = All
        /\ status' = IF stuck = {} THEN Done ELSE Faulted
        /\ (stuck = {} <=> held' = All)
    BY <1>9, UndoGroupFailsIInv DEF UndoGroupFails
  <2>2. Effect = "whole"
    BY <2>1, EffectFacts
  <2>3. CASE stuck = {}
    BY <1>2, <2>1, <2>2, <2>3
  <2>4. CASE stuck # {}
    <3>1. status' = Faulted /\ Effect' = "part"
      BY <1>2, <2>1, <2>4
    <3> QED BY <2>1, <2>2, <3>1 DEF Contract!Next, Contract!Undo
  <2> QED BY <2>3, <2>4
<1> QED BY <1>3, <1>4, <1>5, <1>6, <1>7, <1>8, <1>9 DEF GroupNext, ExecuteGroup, RedoGroup

(* A group of any size keeps the contract of one reversible command: a     *)
(* failed call that keeps it usable changes neither its state nor how much *)
(* of its edit is in the project, and only a fault leaves a part.          *)
THEOREM GroupImplementsCommand == GroupSpec => ImplementsCommand
<1>1. GroupInit => Contract!Init
  BY InitGroupImplements
<1>2. GroupIInv /\ [GroupNext]_groupVars => [Contract!Next]_<<status, Effect>>
  BY StepGroupImplements
<1> QED BY <1>1, <1>2, GroupIInvHolds, PTL DEF GroupSpec, ImplementsCommand, Contract!Spec
=============================================================================
