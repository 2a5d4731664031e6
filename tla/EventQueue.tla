------------------------------ MODULE EventQueue ------------------------------
(***************************************************************************)
(* EventQueue (event_queue.hpp/.cpp): the bounded storage behind one       *)
(* (node, event) listener.  A queue is the sequence of the arrival         *)
(* ordinals of its pending occurrences, oldest first; the policy and the   *)
(* capacity are told to every call, as in the code.                        *)
(***************************************************************************)
EXTENDS Naturals, Sequences

FirstWins       == "first_wins"
LatestValidWins == "latest_valid_wins"
Fifo            == "fifo"
QueuePolicies   == {FirstWins, LatestValidWins, Fifo}

(* Mutant of Record: a full FIFO drops the arrival instead of the oldest. *)
Record_DropsNewest(queue, policy, occurrence, capacity) ==
  CASE policy = FirstWins       -> IF queue = <<>> THEN <<occurrence>> ELSE queue
    [] policy = LatestValidWins -> <<occurrence>>
    [] policy = Fifo -> IF Len(queue) >= capacity THEN queue ELSE Append(queue, occurrence)

(* record(): the queue after `occurrence' arrives. *)
Record(queue, policy, occurrence, capacity) ==
  CASE policy = FirstWins       -> IF queue = <<>> THEN <<occurrence>> ELSE queue
    [] policy = LatestValidWins -> <<occurrence>>
    [] policy = Fifo /\ capacity = 0 -> queue
    [] policy = Fifo /\ capacity # 0 ->
         Append(IF Len(queue) >= capacity THEN Tail(queue) ELSE queue, occurrence)

(* record(): by how much dropped_count_ grows. *)
Dropped(queue, policy, capacity) ==
  IF policy = Fifo /\ Len(queue) >= capacity THEN 1 ELSE 0

(* peek() and consume() *)
Peek(queue)    == Head(queue)
\* Mutant of Consume: the occurrence is read and left where it is.
Consume_Keeps(queue) == queue
Consume(queue) == IF queue = <<>> THEN queue ELSE Tail(queue)
=============================================================================
