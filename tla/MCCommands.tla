----------------------------- MODULE MCCommands -----------------------------
(* Three parts that share no state: a group of up to six children any of   *)
(* whose calls may fail, a history of two leaf commands and two groups     *)
(* that may fault, and the commands of the graph.                          *)
(*                                                                         *)
(* The graph is two wired nodes.  Node 1, the start, has input 3 and       *)
(* outputs 4 and 5, both bound to event 7 and sharing its listener; node 2 *)
(* has input 6 and output 8.  Edges 4 -> 3 to itself and 8 -> 3 with a     *)
(* customized route; output 5 has a route and no edge yet.  Track 9 is     *)
(* active, and node 1 has music in it; 10 is archived, and node 2 was made *)
(* since.  One more track reaches the cap.                                 *)
EXTENDS CommandHistory, CommandTransaction, TLC

CONSTANTS c1, c2, g1, g2,
          Automatic, Empty, MaxActiveTracks, Routes, Contents, AttributeValues,
          MaxCopied, MaxEdits

VARIABLES part,                 \* which of the three
          graph, done, undone   \* of GraphCommands
graphVars == <<graph, done, undone>>

Project == INSTANCE ProjectGraph
Wired(t, e, n, i, r) ==
  [Project!NewOutput(t) EXCEPT !.event = e, !.dest = [node |-> n, connector |-> i], !.route = r]

TwoNodes ==
  [Project!EmptyProject EXCEPT
    !.nodes = <<1, 2>>,
    !.node = <<[Project!NewNode({9, 10}) EXCEPT
                  !.inputs = <<3>>, !.inputName = (3 :> Project!Plain), !.outputs = <<4, 5>>,
                  !.output = (4 :> Wired(Project!Sequential, 7, 1, 3, Automatic)
                              @@ 5 :> [Project!NewOutput(Project!Sequential) EXCEPT !.event = 7, !.route = "drawn"]),
                  !.listener = (7 :> [boundType |-> Project!Sequential, policy |-> Project!Fifo, capacity |-> 2]),
                  !.lane = (9 :> "music" @@ 10 :> "music")],
               [Project!NewNode({9}) EXCEPT
                  !.inputs = <<6>>, !.inputName = (6 :> Project!Plain), !.outputs = <<8>>,
                  !.output = (8 :> Wired(Project!Vertical, None, 1, 3, "drawn"))]>>,
    !.start = 1,
    !.events = {7},
    !.active = <<9>>,
    !.archived = <<10>>,
    !.track = (9 :> Project!NewTrack @@ 10 :> Project!NewTrack)]

Policies == {[policy |-> Project!FirstWins, capacity |-> 0]}
AllCommands ==
  {"add_node", "remove_node", "duplicate_nodes", "set_start_node", "add_input", "remove_input",
   "add_output", "remove_output", "connect", "disconnect", "set_custom_route", "reset_route",
   "set_output_type", "register_event", "remove_event", "bind_output_event",
   "set_listener_policy", "add_track", "archive_track", "restore_track", "set_event",
   "set_attribute"}
Graph == INSTANCE GraphCommands WITH
  project <- graph, Base <- TwoNodes, BaseTop <- 10,
  ListenerConfigs <- Policies, Enabled <- AllCommands

MCInit == part \in {"group", "history", "graph"} /\ Init /\ GroupInit /\ Graph!Init
MCNext == /\ UNCHANGED part
          /\ \/ part = "group" /\ GroupNext /\ UNCHANGED <<vars, graphVars>>
             \/ part = "history" /\ Next /\ UNCHANGED <<groupVars, graphVars>>
             \/ part = "graph" /\ Graph!Next /\ UNCHANGED <<vars, groupVars>>
MCSpec == MCInit /\ [][MCNext]_<<vars, groupVars, graphVars, part>>

(* GraphCommands' properties: nothing dangles, undo takes back and redo    *)
(* makes again exactly one edit, and running out of memory costs edges,    *)
(* routes and listeners but leaves no dangling reference.                  *)
GraphIsSound        == part = "graph" => Graph!GraphIsSound
UndoIsInverse       == part = "graph" => Graph!UndoIsInverse
DamageDoesNotDangle == part = "graph" => Graph!DamageDoesNotDangle
=============================================================================
