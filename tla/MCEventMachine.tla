--------------------------- MODULE MCEventMachine ---------------------------
(* Competing: one node whose outputs compete for a boundary.  o1 and o2     *)
(* share event e1 and a priority, o3 has e2 and the same priority, o4       *)
(* outranks them all and has e2 or no event; groups with and without a      *)
(* valid total weight.                                                      *)
(* Jumping: two nodes that jump to each other and to themselves on one      *)
(* event, and a sequential listener beside them.  o1 and o2 compete for the *)
(* jump from n1, o3 jumps back from n2, o5 keeps n2 listening to e2.        *)
(* Edited: one output that leads back to its node and listens to e1, and    *)
(* any edit of that node between any two transport steps.                   *)
EXTENDS EventStateMachine

CONSTANTS n1, n2, o1, o2, o3, o4, o5, e1, e2

MCPriority   == [o \in Outputs |-> IF o \in {o4, o5} THEN 1 ELSE 0]
MCWeight     == [o \in Outputs |-> CASE o \in {o1, o4} -> 1 [] o = o5 -> 2 [] OTHER -> 0]
MCCompatible == {<<n1, n2>>, <<n2, n1>>, <<n2, n2>>}

Listening(t, p, c) == [boundType |-> t, policy |-> p, capacity |-> c]

Competing ==
  {[outputs   |-> [n \in Nodes |-> IF n = n1 THEN <<o1, o2, o3, o4>> ELSE <<>>],
    type      |-> [o \in Outputs |-> Sequential],
    event     |-> [o \in Outputs |-> CASE o \in {o1, o2} -> e1 [] o = o3 -> e2
                                       [] o = o4 -> e [] OTHER -> None],
    dest      |-> [o \in Outputs |-> IF o \in lead THEN n1 ELSE None],
    listeners |-> [k \in Nodes \X Events |->
                    CASE k = <<n1, e1>> -> Listening(Sequential, p, 2)
                      [] k = <<n1, e2>> -> Listening(Sequential, Fifo, 1)
                      [] OTHER -> None]]
   : p \in QueuePolicies, e \in {e2, None},
     lead \in {{}, {o2, o3}, {o1, o2, o4}, {o1, o2, o3, o4}}}

Jumping ==
  {[outputs   |-> [n \in Nodes |-> IF n = n1 THEN <<o1, o2>> ELSE <<o3, o5>>],
    type      |-> [o \in Outputs |-> IF o \in {o1, o2, o3} THEN Vertical ELSE Sequential],
    event     |-> [o \in Outputs |-> CASE o = o5 -> e2 [] o = o4 -> None [] OTHER -> e1],
    dest      |-> [o \in Outputs |->
                    CASE o = o1 -> d1 [] o = o2 -> n2 [] o = o3 -> d3 [] o = o5 -> n1
                      [] OTHER -> None],
    listeners |-> [k \in Nodes \X Events |->
                    CASE k[2] = e1 -> Listening(Vertical, LatestValidWins, 1)
                      [] k = <<n2, e2>> -> Listening(Sequential, LatestValidWins, 1)
                      [] OTHER -> None]]
   : d1 \in {n1, n2, None}, d3 \in {n1, n2}}

EditedConfig ==
  [outputs   |-> [n \in Nodes |-> IF n = n1 THEN <<o1>> ELSE <<>>],
   type      |-> [o \in Outputs |-> Sequential],
   event     |-> [o \in Outputs |-> IF o = o1 THEN e1 ELSE None],
   dest      |-> [o \in Outputs |-> IF o = o1 THEN n1 ELSE None],
   listeners |-> [k \in Nodes \X Events |->
                   IF k = <<n1, e1>> THEN Listening(Sequential, Fifo, 2) ELSE None]]

MCConfigs == Competing \union Jumping \union {EditedConfig}

VARIABLE edited   \* the graph is edited as it plays, else it is finished

\* Bound: the edited node has two outputs and one event, and one instant; its
\* second output leads nowhere once a second occurrence is recorded.
Small == /\ active \in {n1, None} /\ nextOrdinal <= 2 /\ now = 0
         /\ minted \subseteq {o1, o2} /\ outputs[n2] = <<>>
         /\ dest[o2] # None => nextOrdinal <= 1
         /\ \A o \in Outputs : event[o] # e2 /\ dest[o] # n2 /\ manual[n2] = None

\* Bound: the clock stands still where nothing can jump.
Timed == now > 0 => \E o \in Outputs : type[o] = Vertical

MCInit == /\ Init
          /\ edited = (outputs = EditedConfig.outputs)
          /\ edited => Small
MCNext == /\ TransportNext \/ (edited /\ EditNext)
          /\ edited => Small'
          /\ Timed'
          /\ UNCHANGED edited
MCSpec == MCInit /\ [][MCNext]_<<vars, edited>>
=============================================================================
