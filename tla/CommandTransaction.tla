-------------------------- MODULE CommandTransaction --------------------------
(***************************************************************************)
(* CommandTransaction (command_transaction.hpp/.cpp): an ordered group of  *)
(* child commands run as one.  Any call on a child may fail, leaving the   *)
(* project as it was for that child; the group then compensates the        *)
(* children it had passed, and faults when a compensation fails too.  The  *)
(* project is the sequence of the children whose edits it holds, in the    *)
(* order they were made.                                                   *)
(***************************************************************************)
EXTENDS Naturals, Sequences, Functions, Subsequences

CONSTANT MaxChildren   \* bound: children added to the group

VARIABLES
  children,  \* children_, as the state_ of each
  status,    \* state_
  held       \* the children whose edits the project holds

groupVars == <<children, status, held>>

Fresh   == "fresh"
Done    == "done"
Undone  == "undone"
Faulted == "faulted"

All == [i \in DOMAIN children |-> i]
Upto(i)  == SubSeq(All, 1, i)
After(i) == SubSeq(All, i + 1, Len(All))

GroupInit ==
  /\ children = <<>>
  /\ status = Fresh
  /\ held = <<>>

AddCommand ==
  /\ status = Fresh
  /\ Len(children) < MaxChildren
  /\ children' = Append(children, Fresh)
  /\ UNCHANGED <<status, held>>

-----------------------------------------------------------------------------
(* A loop calls the children js, in insertion order or in reverse; those   *)
(* in `failing' return an error and change nothing.                        *)
Applied(p, js, failing)   == p \o Kept(js, Range(js) \ failing)
Withdrawn(p, js, failing) == Kept(p, Range(p) \ (Range(js) \ failing))

(* Every child succeeds. *)
Forward(from) ==
  /\ status = from
  /\ children' = [j \in DOMAIN children |-> Done]
  /\ held' = Applied(held, All, {})
  /\ status' = Done

(* Mutant of ForwardFails: a failed compensation does not fault the group. *)
ForwardFails_Forgives(from, i, stuck, rolledBack) ==
  /\ status = from
  /\ children' = [j \in DOMAIN children |->
       IF j < i THEN IF j \in stuck THEN Done ELSE Undone ELSE children[j]]
  /\ held' = Withdrawn(Applied(held, Upto(i - 1), {}), Upto(i - 1), stuck)
  /\ status' = rolledBack

(* Child i fails; children before it are undone in reverse order, except   *)
(* those in `stuck', whose undo fails.                                     *)
ForwardFails(from, i, stuck, rolledBack) ==
  /\ status = from
  /\ children' = [j \in DOMAIN children |->
       IF j < i THEN IF j \in stuck THEN Done ELSE Undone ELSE children[j]]
  /\ held' = Withdrawn(Applied(held, Upto(i - 1), {}), Upto(i - 1), stuck)
  /\ status' = IF stuck = {} THEN rolledBack ELSE Faulted

ExecuteGroup == Forward(Fresh)
ExecuteGroupFails(i, stuck) == ForwardFails(Fresh, i, stuck, Faulted)

RedoGroup == Forward(Undone)
RedoGroupFails(i, stuck) == ForwardFails(Undone, i, stuck, Undone)

UndoGroup ==
  /\ status = Done
  /\ children' = [j \in DOMAIN children |-> Undone]
  /\ held' = Withdrawn(held, All, {})
  /\ status' = Undone

(* Child i fails to undo; the children after it are redone in insertion    *)
(* order, except those in `stuck'.                                         *)
UndoGroupFails(i, stuck) ==
  /\ status = Done
  /\ children' = [j \in DOMAIN children |-> IF j \in stuck THEN Undone ELSE children[j]]
  /\ held' = Applied(Withdrawn(held, After(i), {}), After(i), stuck)
  /\ status' = IF stuck = {} THEN Done ELSE Faulted

GroupNext ==
  \/ AddCommand
  \/ ExecuteGroup \/ UndoGroup \/ RedoGroup
  \/ \E i \in DOMAIN children :
       \/ \E stuck \in SUBSET (1..(i - 1)) : ExecuteGroupFails(i, stuck) \/ RedoGroupFails(i, stuck)
       \/ \E stuck \in SUBSET ((i + 1)..Len(children)) : UndoGroupFails(i, stuck)

GroupSpec == GroupInit /\ [][GroupNext]_groupVars

-----------------------------------------------------------------------------
(* Properties *)

(* The group is all or nothing until it faults: a group that is done has   *)
(* every child's edit in the project, a fresh or undone one has none, and  *)
(* each child stands where the project says (a failed call whose           *)
(* compensation succeeds restores "the exact pre-operation state").        *)
AllOrNothing ==
  /\ status = Done => held = All
  /\ status \in {Fresh, Undone} => held = <<>>
  /\ \A j \in DOMAIN children : children[j] = Done <=> j \in Range(held)

(* Even after a fault the edits the project holds are the children's in    *)
(* insertion order, each once: compensation redoes in insertion order.     *)
InsertionOrder == Increasing(held)

(* What the project holds of the whole group; an empty group, which has    *)
(* no edit to hold, is whole once it is done.                              *)
Effect ==
  IF held = All /\ (children # <<>> \/ status = Done) THEN "whole"
  ELSE IF held = <<>> THEN "none" ELSE "part"

Contract == INSTANCE Command WITH state <- status, effect <- Effect

(* A group is itself a command: it keeps the lifecycle of command.hpp, and *)
(* leaves part of its edit only when it faults.                            *)
ImplementsCommand == Contract!Spec
=============================================================================
