------------------------------- MODULE Command -------------------------------
(***************************************************************************)
(* The contract of one reversible command (command.hpp): the three-phase   *)
(* lifecycle of the protected State enum and how much of its edit the      *)
(* project holds.  A failed call that keeps the command usable changes     *)
(* neither; a fault is terminal, and outside execute() it leaves a partial *)
(* edit behind.                                                            *)
(***************************************************************************)
Fresh   == "fresh"
Done    == "done"
Undone  == "undone"
Faulted == "faulted"
States  == {Fresh, Done, Undone, Faulted}

NoEdit   == "none"
WholeEdit == "whole"
PartEdit == "part"
Effects  == {NoEdit, WholeEdit, PartEdit}

VARIABLES state, effect

Init == state = Fresh /\ effect = NoEdit

Becomes(s, e) == state' = s /\ effect' = e

Execute == state = Fresh  /\ (Becomes(Done, WholeEdit) \/ Becomes(Faulted, NoEdit) \/ Becomes(Faulted, PartEdit))
Undo    == state = Done   /\ (Becomes(Undone, NoEdit) \/ Becomes(Faulted, PartEdit))
Redo    == state = Undone /\ (Becomes(Done, WholeEdit) \/ Becomes(Faulted, PartEdit))

Next == Execute \/ Undo \/ Redo
Spec == Init /\ [][Next]_<<state, effect>>
=============================================================================
