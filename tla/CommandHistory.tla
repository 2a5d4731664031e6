--------------------------- MODULE CommandHistory ---------------------------
(***************************************************************************)
(* CommandHistory and its Transaction (command_history.hpp/.cpp): the undo *)
(* and redo stacks, one provisional command whose publication is still to  *)
(* come, and the poisoned slot that retains it when its rollback fails.    *)
(* A command is a leaf or a group: a leaf's failed call changes nothing, a *)
(* group (CommandTransaction) may fault, leaving part of its edit in the   *)
(* project.  A refused call, or one whose reserve() fails, changes nothing *)
(* and is no step.                                                         *)
(***************************************************************************)
EXTENDS Naturals, SequencesExt, Subsequences

CONSTANTS
  Commands,  \* command objects, each given to the history once
  Groups,    \* those that are CommandTransactions
  None       \* a null command pointer

ASSUME CommandKinds == Groups \subseteq Commands /\ None \notin Commands

VARIABLES
  undoStack, redoStack,  \* undo_stack_ and redo_stack_, last element on top
  undoRoom, redoRoom,    \* their capacity()
  provisional,           \* Transaction::command_ of the active transaction
  poisoned,              \* poisoned_command_
  state,                 \* state_ of each command, or "destroyed"
  project,               \* the commands whose whole edit it holds, oldest first
  partial,               \* those of whose edit it holds a part
  unpublished,           \* caller: the undo or redo it has still to publish
  base                   \* history: the project when last cleared

stacks == <<undoStack, redoStack>>
room   == <<undoRoom, redoRoom>>
slots  == <<provisional, poisoned>>
edits  == <<state, project, partial>>
vars   == <<stacks, room, slots, edits, unpublished, base>>

Init ==
  /\ undoStack = <<>> /\ redoStack = <<>>
  /\ undoRoom = 0 /\ redoRoom = 0
  /\ provisional = None /\ poisoned = None
  /\ state = [c \in Commands |-> "fresh"]
  /\ project = <<>> /\ partial = {}
  /\ unpublished = "nothing"
  /\ base = <<>>

-----------------------------------------------------------------------------
(* A call on command c that succeeds makes or withdraws its edit. *)

Moves(c, from, to) == state[c] = from /\ state' = [state EXCEPT ![c] = to]

Makes(c)     == project' = Append(project, c) /\ UNCHANGED partial
Withdraws(c) == project' = Kept(project, Commands \ {c}) /\ UNCHANGED partial

Executes(c) == Moves(c, "fresh", "done")  /\ Makes(c)
Redoes(c)   == Moves(c, "undone", "done") /\ Makes(c)
Undoes(c)   == Moves(c, "done", "undone") /\ Withdraws(c)

(* c faults half-way. *)
Halves(c) == /\ project' = Kept(project, Commands \ {c})
             /\ partial' = partial \union {c}

(* A call on a recorded command fails: nothing happens, or a group faults. *)
Fails(c) ==
  \/ UNCHANGED edits
  \/ /\ c \in Groups
     /\ state[c] # "faulted"
     /\ state' = [state EXCEPT ![c] = "faulted"]
     /\ Halves(c)

(* execute() fails and the command goes with its unique_ptr. *)
ExecuteFails(c) ==
  /\ Moves(c, "fresh", "destroyed")
  /\ UNCHANGED <<project, partial>> \/ (c \in Groups /\ Halves(c))

(* reserve(size() + 1) *)
Reserved(capacity, stack) == IF capacity > Len(stack) THEN capacity ELSE Len(stack) + 1

Idle == provisional = None /\ poisoned = None /\ unpublished = "nothing"

-----------------------------------------------------------------------------
ExecuteNew(c) ==
  /\ Idle
  /\ undoRoom' = Reserved(undoRoom, undoStack)
  /\ \/ Executes(c) /\ undoStack' = Append(undoStack, c) /\ redoStack' = <<>>
     \/ ExecuteFails(c) /\ UNCHANGED stacks
  /\ UNCHANGED <<redoRoom, slots, unpublished, base>>

BeginTransaction(c) ==
  /\ Idle
  /\ undoRoom' = Reserved(undoRoom, undoStack)
  /\ \/ Executes(c) /\ provisional' = c
     \/ ExecuteFails(c) /\ UNCHANGED provisional
  /\ UNCHANGED <<stacks, redoRoom, poisoned, unpublished, base>>

(* Mutant of Commit: the redo stack survives. *)
Commit_KeepsRedo ==
  /\ provisional # None
  /\ undoStack' = Append(undoStack, provisional)
  /\ provisional' = None
  /\ UNCHANGED <<redoStack, room, poisoned, edits, unpublished, base>>

Commit ==
  /\ provisional # None
  /\ undoStack' = Append(undoStack, provisional)
  /\ redoStack' = <<>>
  /\ provisional' = None
  /\ UNCHANGED <<room, poisoned, edits, unpublished, base>>

(* abort(), or the destructor of a transaction that was abandoned. *)
Abort ==
  /\ provisional # None
  /\ provisional' = None
  /\ \/ Undoes(provisional) /\ UNCHANGED poisoned
     \/ Fails(provisional) /\ poisoned' = provisional
  /\ UNCHANGED <<stacks, room, unpublished, base>>

Recover ==
  /\ poisoned # None
  /\ \/ Undoes(poisoned) /\ poisoned' = None
     \/ Fails(poisoned) /\ UNCHANGED poisoned
  /\ UNCHANGED <<stacks, room, provisional, unpublished, base>>

(* Mutant of Undo: a command whose undo() failed is not put back. *)
Undo_LosesFailed ==
  /\ Idle
  /\ undoStack # <<>>
  /\ redoRoom' = Reserved(redoRoom, redoStack)
  /\ \/ /\ Undoes(Last(undoStack))
        /\ undoStack' = Front(undoStack)
        /\ redoStack' = Append(redoStack, Last(undoStack))
        /\ unpublished' = "undo"
     \/ /\ Fails(Last(undoStack))
        /\ undoStack' = Front(undoStack)
        /\ UNCHANGED <<redoStack, unpublished>>
  /\ UNCHANGED <<undoRoom, slots, base>>

Undo ==
  /\ Idle
  /\ undoStack # <<>>
  /\ redoRoom' = Reserved(redoRoom, redoStack)
  /\ \/ /\ Undoes(Last(undoStack))
        /\ undoStack' = Front(undoStack)
        /\ redoStack' = Append(redoStack, Last(undoStack))
        /\ unpublished' = "undo"
     \/ Fails(Last(undoStack)) /\ UNCHANGED <<stacks, unpublished>>
  /\ UNCHANGED <<undoRoom, slots, base>>

Redo ==
  /\ Idle
  /\ redoStack # <<>>
  /\ undoRoom' = Reserved(undoRoom, undoStack)
  /\ \/ /\ Redoes(Last(redoStack))
        /\ redoStack' = Front(redoStack)
        /\ undoStack' = Append(undoStack, Last(redoStack))
        /\ unpublished' = "redo"
     \/ Fails(Last(redoStack)) /\ UNCHANGED <<stacks, unpublished>>
  /\ UNCHANGED <<redoRoom, slots, base>>

(* The caller published the undo or redo, or could not: then it rolls it   *)
(* back at once.  compensate_undo() is redo(), compensate_redo() is undo().*)
Publish ==
  /\ unpublished # "nothing"
  /\ unpublished' = "nothing"
  /\ UNCHANGED <<stacks, room, slots, edits, base>>

RollbackLastUndo ==
  /\ unpublished = "undo"
  /\ unpublished' = "nothing"
  /\ redoStack # <<>>
  /\ \/ /\ Redoes(Last(redoStack))
        /\ undoStack' = Append(undoStack, Last(redoStack))
        /\ redoStack' = Front(redoStack)
     \/ Fails(Last(redoStack)) /\ UNCHANGED stacks
  /\ UNCHANGED <<room, slots, base>>

RollbackLastRedo ==
  /\ unpublished = "redo"
  /\ unpublished' = "nothing"
  /\ undoStack # <<>>
  /\ \/ /\ Undoes(Last(undoStack))
        /\ redoStack' = Append(redoStack, Last(undoStack))
        /\ undoStack' = Front(undoStack)
     \/ Fails(Last(undoStack)) /\ UNCHANGED stacks
  /\ UNCHANGED <<room, slots, base>>

Clear ==
  /\ Idle
  /\ undoStack' = <<>> /\ redoStack' = <<>>
  /\ base' = project
  /\ UNCHANGED <<room, slots, edits, unpublished>>

Next ==
  \/ \E c \in Commands : ExecuteNew(c) \/ BeginTransaction(c)
  \/ Commit \/ Abort \/ Recover
  \/ Undo \/ Redo \/ Publish \/ RollbackLastUndo \/ RollbackLastRedo
  \/ Clear

Spec == Init /\ [][Next]_vars

-----------------------------------------------------------------------------
(* Properties *)

(* The command whose outcome is still open, if any. *)
Open == IF provisional # None THEN <<provisional>>
        ELSE IF poisoned # None THEN <<poisoned>> ELSE <<>>

(* The project is the replay of the history: what was there when it was    *)
(* cleared, then the edits on the undo stack from the bottom up, then the  *)
(* provisional one, and no undone edit.  Only a faulted command's edit is  *)
(* missing from the replay, and only such a command left a partial one.    *)
Sound == {c \in Commands : state[c] # "faulted"}
ProjectIsReplay ==
  /\ project = base \o Kept(undoStack \o Open, Sound)
  /\ \A c \in partial : state[c] \in {"faulted", "destroyed"}

(* commit() and the rollbacks push without reserving: the slot an earlier  *)
(* reserve() made is still there, so the push cannot allocate and throw    *)
(* out of a noexcept function.                                             *)
PushesAreReserved == Len(undoStack) <= undoRoom /\ Len(redoStack) <= redoRoom

Timeline == INSTANCE EditTimeline WITH
  Edits    <- Commands,
  timeline <- undoStack \o Reverse(redoStack),
  cursor   <- Len(undoStack),
  trial    <- IF provisional # None THEN provisional ELSE poisoned

(* To the user there is one line of edits and a cursor: a transaction is a *)
(* trial that leaves the line as it was unless committed, a poisoned       *)
(* history a trial that is not over, a rolled-back undo a step forward.    *)
ImplementsTimeline == Timeline!Spec
=============================================================================
