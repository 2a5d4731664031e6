----------------------------- MODULE NodeOutputs -----------------------------
(***************************************************************************)
(* What the event state machine reads of a Node (node.hpp/.cpp): its       *)
(* output connectors in their stored order, their type, event binding and  *)
(* destination, and the EventListener shared by the outputs bound to one   *)
(* event.  One operation per Node mutator; a refused call changes nothing  *)
(* and is no step here.                                                    *)
(***************************************************************************)
EXTENDS EventQueue, Subsequences

CONSTANTS
  Nodes, Events, Outputs,
  Capacities,  \* capacities an edit may ask for
  None         \* std::nullopt, or no entry in a map

Sequential == "sequential"
Vertical   == "vertical"
ConnectorTypes == {Sequential, Vertical}

VARIABLES
  outputs,    \* Node::outputs_, in vector order
  type,       \* OutputConnector::type_
  event,      \* OutputConnector::event_binding_
  dest,       \* OutputConnector::destination_, as the node it leads to
  listeners,  \* Node::listeners_
  minted      \* connector ids handed out so far; they are never reused

nodeVars == <<outputs, type, event, dest, listeners, minted>>

OutputsOf(n) == Range(outputs[n])
BoundTo(n, e) == {o \in OutputsOf(n) : event[o] = e}

-----------------------------------------------------------------------------
AddOutput(n, o, t) ==
  /\ o \notin minted
  /\ minted' = minted \union {o}
  /\ outputs' = [outputs EXCEPT ![n] = Append(@, o)]
  /\ type' = [type EXCEPT ![o] = t]
  /\ UNCHANGED <<event, dest, listeners>>

(* cleanup_listener_if_unused(): e loses its listener unless an output     *)
(* other than o is still bound to it.                                      *)
Cleaned(n, o, e) ==
  IF e # None /\ BoundTo(n, e) \subseteq {o}
  THEN [listeners EXCEPT ![<<n, e>>] = None]
  ELSE listeners

RemoveOutput(n, o) ==
  /\ o \in OutputsOf(n)
  /\ outputs' = [outputs EXCEPT ![n] = Kept(@, Outputs \ {o})]
  /\ listeners' = Cleaned(n, o, event[o])
  /\ UNCHANGED <<type, event, dest, minted>>

(* The other outputs bound to e all have type t. *)
NoClash(n, o, e, t) == \A x \in BoundTo(n, e) \ {o} : type[x] = t

BindOutputEvent(n, o, e) ==
  /\ o \in OutputsOf(n)
  /\ e # event[o]
  /\ e # None => NoClash(n, o, e, type[o])
  /\ event' = [event EXCEPT ![o] = e]
  /\ LET cleaned == Cleaned(n, o, event[o])
     IN  listeners' =
           IF e # None /\ cleaned[<<n, e>>] = None
           THEN [cleaned EXCEPT ![<<n, e>>] =
                  [boundType |-> type[o], policy |-> LatestValidWins, capacity |-> 1]]
           ELSE cleaned
  /\ UNCHANGED <<outputs, type, dest, minted>>

SetOutputType(n, o, t) ==
  /\ o \in OutputsOf(n)
  /\ type[o] # t
  /\ event[o] # None => NoClash(n, o, event[o], t)
  /\ type' = [type EXCEPT ![o] = t]
  /\ listeners' =
       IF event[o] # None /\ listeners[<<n, event[o]>>] # None
       THEN [listeners EXCEPT ![<<n, event[o]>>].boundType = t]
       ELSE listeners
  /\ UNCHANGED <<outputs, event, dest, minted>>

SetListenerPolicy(n, e, policy, capacity) ==
  /\ ~(policy = Fifo /\ capacity = 0)
  /\ listeners[<<n, e>>] # None
  /\ listeners' = [listeners EXCEPT ![<<n, e>>].policy = policy, ![<<n, e>>].capacity = capacity]
  /\ UNCHANGED <<outputs, type, event, dest, minted>>

(* Graph::connect() to an input of d, Graph::disconnect() for d = None. *)
SetDestination(n, o, d) ==
  /\ o \in OutputsOf(n)
  /\ (dest[o] = None) # (d = None)
  /\ dest' = [dest EXCEPT ![o] = d]
  /\ UNCHANGED <<outputs, type, event, listeners, minted>>

-----------------------------------------------------------------------------
(* A node's listeners mirror its bindings: one listener per bound event,   *)
(* of the one type all the outputs bound to it have (product decision: "a  *)
(* node cannot hold both a kSequential and a kVertical listener for the    *)
(* same event").                                                           *)
ListenersMirrorBindings ==
  \A n \in Nodes, e \in Events :
    /\ listeners[<<n, e>>] = None <=> BoundTo(n, e) = {}
    /\ \A o \in BoundTo(n, e) : type[o] = listeners[<<n, e>>].boundType
=============================================================================
