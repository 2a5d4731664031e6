---------------------- MODULE EventStateMachine_proofs ----------------------
(***************************************************************************)
(* Proofs about the event state machine, for any graph, any number of      *)
(* occurrences and instants, and any edits between two transport steps.    *)
(***************************************************************************)
EXTENDS EventStateMachine, TLAPS

-----------------------------------------------------------------------------
(* The inductive invariant *)

NodesTyped ==
  /\ outputs \in [Nodes -> Seq(Outputs)]
  /\ type \in [Outputs -> ConnectorTypes]
  /\ event \in [Outputs -> Events \union {None}]
  /\ dest \in [Outputs -> Nodes \union {None}]
  /\ listeners \in [Keys -> Listeners \union {None}]
  /\ minted \subseteq Outputs

PlaybackTyped ==
  /\ queues \in [Keys -> Seq(Nat)] /\ dropped \in [Keys -> Nat]
  /\ nextOrdinal \in Nat
  /\ manual \in [Nodes -> Outputs \union {None}]
  /\ lastJump \in Nat \union {None}
  /\ active \in Nodes \union {None} /\ now \in Nat
  /\ born \in [Keys -> Nat] /\ jumps \in Seq(Nat)

TypeOK == NodesTyped /\ PlaybackTyped

(* An output is in one place of one node, and its id was minted for it. *)
OneHome ==
  /\ \A n \in Nodes : IsInjective(outputs[n]) /\ OutputsOf(n) \subseteq minted
  /\ \A n, m \in Nodes : n # m => OutputsOf(n) \intersect OutputsOf(m) = {}
  /\ \A o \in Outputs : o \notin minted => event[o] = None

(* What is queued was recorded since the listener present was created. *)
PendingIsCurrent ==
  \A k \in Keys :
    /\ \A i \in DOMAIN queues[k] :
         listeners[k] # None /\ born[k] <= queues[k][i] /\ queues[k][i] < nextOrdinal
    /\ born[k] <= nextOrdinal

(* A FIFO listener has room for an occurrence (Node refuses capacity 0). *)
ListenersHaveRoom ==
  \A k \in Keys : listeners[k] # None => listeners[k].policy # Fifo \/ listeners[k].capacity # 0

JumpsAreTimed ==
  /\ lastJump = None <=> jumps = <<>>
  /\ \A i \in DOMAIN jumps : jumps[i] <= lastJump
  /\ lastJump # None => lastJump <= now

GraphInv == OneHome /\ ListenersMirrorBindings /\ ListenersHaveRoom
IInv == TypeOK /\ GraphInv /\ PendingIsCurrent /\ JumpsAreTimed /\ OneJumpPerInstant

-----------------------------------------------------------------------------
(* Initially *)

(* Every sound configuration with empty queues satisfies the invariant.    *)
LEMMA InitIInv == Init => IInv
<1> SUFFICES ASSUME Init PROVE IInv
  OBVIOUS
<1>1. PICK c \in Configs :
        /\ outputs = c.outputs /\ type = c.type /\ event = c.event
        /\ dest = c.dest /\ listeners = c.listeners
  BY DEF Init
<1>2. ConfigIsSound(c)
  BY ConfigsAreSound
<1>3. TypeOK
  <2>1. \A n \in Nodes : Range(outputs[n]) \subseteq Outputs
    BY <1>1, <1>2 DEF ConfigIsSound, Range
  <2>2. <<>> \in Seq(Nat) /\ 0 \in Nat
    OBVIOUS
  <2>3. /\ outputs \in [Nodes -> Seq(Outputs)] /\ type \in [Outputs -> ConnectorTypes]
        /\ event \in [Outputs -> Events \union {None}]
        /\ dest \in [Outputs -> Nodes \union {None}]
        /\ listeners \in [Keys -> Listeners \union {None}]
    BY <1>1, <1>2 DEF ConfigIsSound
  <2>4. minted \subseteq Outputs
    BY <2>1 DEF Init
  <2> QED BY <2>2, <2>3, <2>4 DEF TypeOK, NodesTyped, PlaybackTyped, Init
<1>4. OneHome
  <2>1. \A n \in Nodes : IsInjective(outputs[n])
    BY <1>1, <1>2 DEF ConfigIsSound
  <2>2. \A n \in Nodes : OutputsOf(n) \subseteq minted
    BY DEF Init, OutputsOf
  <2>3. \A n, m \in Nodes : n # m => OutputsOf(n) \intersect OutputsOf(m) = {}
    BY <1>1, <1>2 DEF ConfigIsSound, OutputsOf
  <2>4. \A o \in Outputs : event[o] # None => \E n \in Nodes : o \in OutputsOf(n)
    BY <1>1, <1>2 DEF ConfigIsSound, OutputsOf
  <2> QED BY <2>1, <2>2, <2>3, <2>4 DEF OneHome
<1>5. ListenersMirrorBindings /\ ListenersHaveRoom
  <2>1. ASSUME NEW n \in Nodes, NEW e \in Events
        PROVE  /\ listeners[<<n, e>>] = None <=> BoundTo(n, e) = {}
               /\ \A o \in BoundTo(n, e) : type[o] = listeners[<<n, e>>].boundType
               /\ listeners[<<n, e>>] # None =>
                    listeners[<<n, e>>].policy # Fifo \/ listeners[<<n, e>>].capacity # 0
    BY <1>1, <1>2 DEF ConfigIsSound, BoundTo, OutputsOf
  <2> QED BY <2>1 DEF ListenersMirrorBindings, ListenersHaveRoom, Keys
<1>6. PendingIsCurrent
  BY DEF PendingIsCurrent, Init
<1>7. JumpsAreTimed /\ OneJumpPerInstant
  BY DEF JumpsAreTimed, OneJumpPerInstant, Init
<1> QED BY <1>3, <1>4, <1>5, <1>6, <1>7 DEF IInv, GraphInv

-----------------------------------------------------------------------------
(* Edits of a node *)

(* What the assumptions say of None and of the sets of the model.          *)
LEMMA ConstantFacts ==
  /\ None \notin Nodes /\ None \notin Events /\ None \notin Outputs
  /\ None \notin Nat /\ None \notin Listeners
  /\ Capacities \subseteq Nat /\ Compatible \subseteq Nodes \X Nodes
BY StateMachineConstants

(* A new output has no binding, and its id was never used.                 *)
LEMMA AddOutputKeeps ==
  ASSUME NodesTyped, GraphInv, NEW n \in Nodes, NEW o \in Outputs, NEW t \in ConnectorTypes,
         AddOutput(n, o, t)
  PROVE  NodesTyped' /\ GraphInv'
<1>1. NodesTyped'
  BY DEF NodesTyped, AddOutput
<1>2. /\ outputs'[n] = Append(outputs[n], o) /\ outputs[n] \in Seq(Outputs)
      /\ \A m \in Nodes \ {n} : outputs'[m] = outputs[m]
  BY DEF NodesTyped, AddOutput
<1>3. o \notin minted /\ \A m \in Nodes : o \notin OutputsOf(m)
  BY DEF AddOutput, GraphInv, OneHome
<1>4. /\ Range(outputs'[n]) = Range(outputs[n]) \union {o}
      /\ IsInjective(outputs[n]) => IsInjective(outputs'[n])
  BY <1>2, <1>3, PushFacts DEF OutputsOf
<1>5. OutputsOf(n)' = OutputsOf(n) \union {o} /\ \A m \in Nodes \ {n} : OutputsOf(m)' = OutputsOf(m)
  BY <1>2, <1>4 DEF OutputsOf
<1>6. OneHome'
  <2>1. \A m \in Nodes : IsInjective(outputs'[m])
    BY <1>2, <1>4 DEF GraphInv, OneHome
  <2>2. \A m \in Nodes : OutputsOf(m)' \subseteq minted'
    BY <1>5 DEF GraphInv, OneHome, AddOutput
  <2>3. \A m, k \in Nodes : m # k => OutputsOf(m)' \intersect OutputsOf(k)' = {}
    BY <1>3, <1>5 DEF GraphInv, OneHome
  <2>4. \A x \in Outputs : x \notin minted' => event'[x] = None
    BY DEF GraphInv, OneHome, AddOutput
  <2> QED BY <2>1, <2>2, <2>3, <2>4 DEF OneHome
<1>7. ListenersMirrorBindings'
  <2>1. event[o] = None /\ event' = event /\ listeners' = listeners
    BY <1>3 DEF GraphInv, OneHome, AddOutput
  <2>2. ASSUME NEW m \in Nodes, NEW e \in Events PROVE BoundTo(m, e)' = BoundTo(m, e)
    BY <1>5, <2>1, ConstantFacts DEF BoundTo
  <2>3. \A m \in Nodes, e \in Events : \A x \in BoundTo(m, e) : type'[x] = type[x]
    BY <1>3 DEF BoundTo, AddOutput, NodesTyped, OutputsOf
  <2>4. ASSUME NEW m \in Nodes, NEW e \in Events
        PROVE  /\ listeners'[<<m, e>>] = None <=> BoundTo(m, e)' = {}
               /\ \A x \in BoundTo(m, e)' : type'[x] = listeners'[<<m, e>>].boundType
    <3>1. /\ listeners[<<m, e>>] = None <=> BoundTo(m, e) = {}
          /\ \A x \in BoundTo(m, e) : type[x] = listeners[<<m, e>>].boundType
      BY DEF GraphInv, ListenersMirrorBindings
    <3> QED BY <2>1, <2>2, <2>3, <3>1
  <2> QED BY <2>4 DEF ListenersMirrorBindings
<1>8. ListenersHaveRoom'
  BY DEF GraphInv, ListenersHaveRoom, AddOutput
<1> QED BY <1>1, <1>6, <1>7, <1>8 DEF GraphInv

(* What cleanup_listener_if_unused() leaves. *)
LEMMA CleanedFacts ==
  ASSUME NodesTyped, ListenersHaveRoom, NEW n \in Nodes, NEW o \in Outputs, NEW e \in Events \union {None}
  PROVE  LET c == Cleaned(n, o, e)
         IN  /\ c \in [Keys -> Listeners \union {None}]
             /\ \A k \in Keys : c[k] = IF k = <<n, e>> /\ BoundTo(n, e) \subseteq {o} THEN None ELSE listeners[k]
             /\ \A k \in Keys : c[k] # None => c[k].policy # Fifo \/ c[k].capacity # 0
<1>1. \A k \in Keys : e = None => k # <<n, e>>
  BY ConstantFacts DEF Keys
<1> QED BY <1>1, ConstantFacts DEF Cleaned, NodesTyped, ListenersHaveRoom

(* The listener goes with its last output (cleanup_listener_if_unused).    *)
LEMMA RemoveOutputKeeps ==
  ASSUME NodesTyped, GraphInv, NEW n \in Nodes, NEW o \in Outputs, RemoveOutput(n, o)
  PROVE  NodesTyped' /\ GraphInv'
<1> DEFINE left == Kept(outputs[n], Outputs \ {o})
           c == Cleaned(n, o, event[o])
<1>1. /\ event[o] \in Events \union {None} /\ outputs[n] \in Seq(Outputs)
      /\ event' = event /\ type' = type /\ dest' = dest /\ minted' = minted
      /\ outputs' = [outputs EXCEPT ![n] = left] /\ listeners' = c
  BY DEF NodesTyped, RemoveOutput
<1>2. /\ c \in [Keys -> Listeners \union {None}]
      /\ \A k \in Keys : c[k] = IF k = <<n, event[o]>> /\ BoundTo(n, event[o]) \subseteq {o}
                              THEN None ELSE listeners[k]
      /\ \A k \in Keys : c[k] # None => c[k].policy # Fifo \/ c[k].capacity # 0
  BY <1>1, CleanedFacts, SMTT(30) DEF GraphInv
<1>3. left \in Seq(Outputs) /\ IsInjective(left) /\ Range(left) = Range(outputs[n]) \ {o}
  <2>1. Range(outputs[n]) \subseteq Outputs
    BY <1>1 DEF Range
  <2>2. IsInjective(outputs[n])
    BY DEF GraphInv, OneHome
  <2> QED BY <1>1, <2>1, <2>2, KeptType, KeptInjective, KeptMembers
<1> HIDE DEF left, c
<1>4. NodesTyped'
  BY <1>1, <1>2, <1>3 DEF NodesTyped
<1>5. OutputsOf(n)' = OutputsOf(n) \ {o} /\ \A m \in Nodes \ {n} : OutputsOf(m)' = OutputsOf(m)
  BY <1>1, <1>3 DEF OutputsOf, NodesTyped
<1>6. \A m \in Nodes : IsInjective(outputs'[m])
  BY <1>1, <1>3 DEF GraphInv, OneHome, NodesTyped
<1>7. OneHome'
  BY <1>1, <1>5, <1>6 DEF GraphInv, OneHome
<1>8. ListenersMirrorBindings'
  <2> SUFFICES ASSUME NEW m \in Nodes, NEW e \in Events
               PROVE  /\ listeners'[<<m, e>>] = None <=> BoundTo(m, e)' = {}
                      /\ \A x \in BoundTo(m, e)' : type'[x] = listeners'[<<m, e>>].boundType
    BY DEF ListenersMirrorBindings
  <2>1. /\ listeners[<<m, e>>] = None <=> BoundTo(m, e) = {}
        /\ \A x \in BoundTo(m, e) : type[x] = listeners[<<m, e>>].boundType
    BY DEF GraphInv, ListenersMirrorBindings
  <2>2. BoundTo(m, e)' = IF m = n THEN BoundTo(m, e) \ {o} ELSE BoundTo(m, e)
    BY <1>1, <1>5 DEF BoundTo
  <2>3. <<m, e>> \in Keys /\ o \in OutputsOf(n)
    BY DEF Keys, RemoveOutput
  <2>4. CASE m = n /\ e = event[o]
    <3>1. o \in BoundTo(m, e)
      BY <2>3, <2>4 DEF BoundTo
    <3> QED BY <1>1, <1>2, <2>1, <2>2, <2>3, <2>4, <3>1
  <2>5. CASE ~(m = n /\ e = event[o])
    <3>1. m = n => o \notin BoundTo(m, e)
      BY <2>5 DEF BoundTo
    <3>2. listeners'[<<m, e>>] = listeners[<<m, e>>]
      BY <1>1, <1>2, <2>3, <2>5
    <3> QED BY <1>1, <2>1, <2>2, <3>1, <3>2
  <2> QED BY <2>4, <2>5
<1>9. ListenersHaveRoom'
  BY <1>1, <1>2 DEF ListenersHaveRoom
<1> QED BY <1>4, <1>7, <1>8, <1>9 DEF GraphInv

(* Binding may drop one listener, and create or join another.              *)
LEMMA BindOutputEventKeeps ==
  ASSUME NodesTyped, GraphInv, NEW n \in Nodes, NEW o \in Outputs, NEW e \in Events \union {None},
         BindOutputEvent(n, o, e)
  PROVE  NodesTyped' /\ GraphInv'
<1> DEFINE old == event[o]
           c == Cleaned(n, o, old)
           fresh0 == [boundType |-> type[o], policy |-> LatestValidWins, capacity |-> 1]
<1>1. /\ old \in Events \union {None} /\ e # old /\ o \in OutputsOf(n)
      /\ event' = [event EXCEPT ![o] = e]
      /\ outputs' = outputs /\ type' = type /\ dest' = dest /\ minted' = minted
      /\ type[o] \in ConnectorTypes /\ event \in [Outputs -> Events \union {None}]
  BY DEF NodesTyped, BindOutputEvent
<1>2. /\ c \in [Keys -> Listeners \union {None}]
      /\ \A k \in Keys : c[k] = IF k = <<n, old>> /\ BoundTo(n, old) \subseteq {o} THEN None ELSE listeners[k]
      /\ \A k \in Keys : c[k] # None => c[k].policy # Fifo \/ c[k].capacity # 0
  BY <1>1, CleanedFacts DEF GraphInv
<1>3. fresh0 \in Listeners /\ fresh0.policy # Fifo /\ fresh0 # None /\ fresh0.boundType = type[o]
  BY <1>1, ConstantFacts DEF Listeners, QueuePolicies, LatestValidWins, Fifo
<1>4. listeners' = IF e # None /\ c[<<n, e>>] = None THEN [c EXCEPT ![<<n, e>>] = fresh0] ELSE c
  BY DEF BindOutputEvent
<1>5. e # None => NoClash(n, o, e, type[o])
  BY DEF BindOutputEvent
<1> HIDE DEF c, fresh0, old
<1>6. \A k \in Keys :
        listeners'[k] = IF e # None /\ k = <<n, e>> /\ c[k] = None THEN fresh0 ELSE c[k]
  BY <1>2, <1>4
<1>7. listeners' \in [Keys -> Listeners \union {None}]
  BY <1>2, <1>3, <1>4
<1>8. NodesTyped'
  BY <1>1, <1>7 DEF NodesTyped
<1>9. \A m \in Nodes : OutputsOf(m)' = OutputsOf(m)
  BY <1>1 DEF OutputsOf
<1>10. OneHome'
  <2>1. o \in minted
    BY <1>1 DEF GraphInv, OneHome
  <2> QED BY <1>1, <1>9, <2>1 DEF GraphInv, OneHome
<1>11. ListenersHaveRoom'
  BY <1>2, <1>3, <1>6 DEF ListenersHaveRoom
<1>12. ASSUME NEW m \in Nodes, NEW v \in Events
       PROVE  /\ listeners'[<<m, v>>] = None <=> BoundTo(m, v)' = {}
              /\ \A x \in BoundTo(m, v)' : type'[x] = listeners'[<<m, v>>].boundType
  <2>1. /\ listeners[<<m, v>>] = None <=> BoundTo(m, v) = {}
        /\ \A x \in BoundTo(m, v) : type[x] = listeners[<<m, v>>].boundType
    BY DEF GraphInv, ListenersMirrorBindings
  <2>2. <<m, v>> \in Keys /\ v # None /\ \A x \in OutputsOf(m) : x \in Outputs
    BY ConstantFacts DEF Keys, OutputsOf, Range, NodesTyped
  <2>3. \A x \in OutputsOf(m) : event'[x] = IF x = o THEN e ELSE event[x]
    BY <1>1, <2>2
  <2>4. CASE m # n
    <3>1. o \notin OutputsOf(m)
      BY <1>1, <2>4 DEF GraphInv, OneHome
    <3>2. BoundTo(m, v)' = BoundTo(m, v)
      BY <1>9, <2>3, <3>1 DEF BoundTo
    <3>3. listeners'[<<m, v>>] = listeners[<<m, v>>]
      BY <1>2, <1>6, <2>2, <2>4
    <3> QED BY <1>1, <2>1, <3>2, <3>3
  <2>5. CASE m = n /\ v = e
    <3>1. BoundTo(m, v)' = BoundTo(m, v) \union {o} /\ o \notin BoundTo(m, v)
      BY <1>1, <1>9, <2>3, <2>5 DEF BoundTo, old
    <3>2. c[<<m, v>>] = listeners[<<m, v>>]
      BY <1>1, <1>2, <2>2, <2>5
    <3>3. listeners'[<<m, v>>] = IF listeners[<<m, v>>] = None THEN fresh0 ELSE listeners[<<m, v>>]
      BY <1>6, <2>2, <2>5, <3>2
    <3>4. \A x \in BoundTo(m, v) : type[x] = type[o]
      BY <1>5, <2>2, <2>5, <3>1 DEF NoClash
    <3> QED BY <1>1, <1>3, <2>1, <3>1, <3>3, <3>4
  <2>6. CASE m = n /\ v = old
    <3>1. BoundTo(m, v)' = BoundTo(m, v) \ {o} /\ o \in BoundTo(m, v)
      BY <1>1, <1>9, <2>3, <2>6 DEF BoundTo, old
    <3>2. listeners'[<<m, v>>] = IF BoundTo(m, v) \subseteq {o} THEN None ELSE listeners[<<m, v>>]
      BY <1>1, <1>2, <1>6, <2>2, <2>6
    <3> QED BY <1>1, <2>1, <3>1, <3>2
  <2>7. CASE m = n /\ v # e /\ v # old
    <3>1. BoundTo(m, v)' = BoundTo(m, v)
      BY <1>9, <2>3, <2>7 DEF BoundTo, old
    <3>2. listeners'[<<m, v>>] = listeners[<<m, v>>]
      BY <1>2, <1>6, <2>2, <2>7
    <3> QED BY <1>1, <2>1, <3>1, <3>2
  <2> QED BY <2>4, <2>5, <2>6, <2>7
<1>13. ListenersMirrorBindings'
  BY <1>12 DEF ListenersMirrorBindings
<1> QED BY <1>8, <1>10, <1>11, <1>13 DEF GraphInv

(* Retyping is refused among outputs of another type, else carries the     *)
(* listener along.                                                         *)
LEMMA SetOutputTypeKeeps ==
  ASSUME NodesTyped, GraphInv, NEW n \in Nodes, NEW o \in Outputs, NEW t \in ConnectorTypes,
         SetOutputType(n, o, t)
  PROVE  NodesTyped' /\ GraphInv'
<1> DEFINE k0 == <<n, event[o]>>
<1>1. /\ event[o] \in Events \union {None} /\ o \in OutputsOf(n)
      /\ event[o] # None => NoClash(n, o, event[o], t) /\ k0 \in Keys
      /\ type' = [type EXCEPT ![o] = t] /\ type \in [Outputs -> ConnectorTypes]
      /\ outputs' = outputs /\ event' = event /\ dest' = dest /\ minted' = minted
      /\ listeners \in [Keys -> Listeners \union {None}]
  BY DEF NodesTyped, SetOutputType, Keys
<1>2. \A m \in Nodes, v \in Events : BoundTo(m, v)' = BoundTo(m, v) /\ BoundTo(m, v) \subseteq Outputs
  BY <1>1 DEF BoundTo, OutputsOf, NodesTyped, Range
<1>3. event[o] # None => listeners[k0] # None /\ listeners[k0] \in Listeners
  <2> SUFFICES ASSUME event[o] # None PROVE listeners[k0] # None
    BY <1>1
  <2>1. o \in BoundTo(n, event[o])
    BY <1>1 DEF BoundTo
  <2> QED BY <1>1, <2>1 DEF GraphInv, ListenersMirrorBindings
<1>4. listeners' = IF event[o] # None THEN [listeners EXCEPT ![k0].boundType = t] ELSE listeners
  BY <1>3 DEF SetOutputType
<1>5. CASE event[o] = None
  <2>1. NodesTyped' /\ OneHome' /\ ListenersHaveRoom'
    BY <1>1, <1>4, <1>5 DEF NodesTyped, GraphInv, OneHome, OutputsOf, ListenersHaveRoom
  <2>2. \A m \in Nodes, v \in Events : o \notin BoundTo(m, v)
    BY <1>5, ConstantFacts DEF BoundTo
  <2>3. \A m \in Nodes, v \in Events : \A x \in BoundTo(m, v) : type'[x] = type[x]
    BY <1>1, <1>2, <2>2
  <2>4. ASSUME NEW m \in Nodes, NEW v \in Events
        PROVE  /\ listeners'[<<m, v>>] = None <=> BoundTo(m, v)' = {}
               /\ \A x \in BoundTo(m, v)' : type'[x] = listeners'[<<m, v>>].boundType
    <3>1. /\ listeners[<<m, v>>] = None <=> BoundTo(m, v) = {}
          /\ \A x \in BoundTo(m, v) : type[x] = listeners[<<m, v>>].boundType
      BY DEF GraphInv, ListenersMirrorBindings
    <3> QED BY <1>2, <1>4, <1>5, <2>3, <3>1
  <2>5. ListenersMirrorBindings'
    BY <2>4 DEF ListenersMirrorBindings
  <2> QED BY <2>1, <2>5 DEF GraphInv
<1>6. CASE event[o] # None
  <2> DEFINE l == [listeners[k0] EXCEPT !.boundType = t]
  <2>1. /\ l \in Listeners /\ l # None /\ l.boundType = t
        /\ l.policy = listeners[k0].policy /\ l.capacity = listeners[k0].capacity
    BY <1>3, <1>6, ConstantFacts DEF Listeners
  <2>2. listeners' = [listeners EXCEPT ![k0] = l]
    BY <1>4, <1>6
  <2> HIDE DEF l
  <2>3. \A k \in Keys : listeners'[k] = IF k = k0 THEN l ELSE listeners[k]
    BY <1>1, <2>2
  <2>4. NodesTyped'
    BY <1>1, <2>1, <2>2 DEF NodesTyped
  <2>5. OneHome'
    BY <1>1 DEF GraphInv, OneHome, OutputsOf
  <2>6. ListenersHaveRoom'
    BY <1>3, <1>6, <1>1, <2>1, <2>3 DEF GraphInv, ListenersHaveRoom
  <2>7. ASSUME NEW m \in Nodes, NEW v \in Events
        PROVE  /\ listeners'[<<m, v>>] = None <=> BoundTo(m, v)' = {}
               /\ \A x \in BoundTo(m, v)' : type'[x] = listeners'[<<m, v>>].boundType
    <3>1. /\ listeners[<<m, v>>] = None <=> BoundTo(m, v) = {}
          /\ \A x \in BoundTo(m, v) : type[x] = listeners[<<m, v>>].boundType
      BY DEF GraphInv, ListenersMirrorBindings
    <3>2. <<m, v>> \in Keys
      BY DEF Keys
    <3>3. CASE <<m, v>> = k0
      <4>1. \A x \in BoundTo(m, v) : type'[x] = t
        BY <1>1, <1>2, <1>6, <3>3 DEF NoClash
      <4> QED BY <1>2, <1>3, <1>6, <2>1, <2>3, <3>1, <3>2, <3>3, <4>1
    <3>4. CASE <<m, v>> # k0
      <4>1. o \notin BoundTo(m, v)
        BY <1>1, <3>4 DEF BoundTo, GraphInv, OneHome
      <4> QED BY <1>1, <1>2, <2>3, <3>1, <3>2, <3>4, <4>1
    <3> QED BY <3>3, <3>4
  <2>8. ListenersMirrorBindings'
    BY <2>7 DEF ListenersMirrorBindings
  <2> QED BY <2>4, <2>5, <2>6, <2>8 DEF GraphInv
<1> QED BY <1>5, <1>6

(* A new policy or capacity leaves bindings and what pends alone.          *)
LEMMA SetListenerPolicyKeeps ==
  ASSUME NodesTyped, GraphInv, NEW n \in Nodes, NEW e \in Events, NEW p \in QueuePolicies,
         NEW c \in Capacities, SetListenerPolicy(n, e, p, c)
  PROVE  NodesTyped' /\ GraphInv'
<1> DEFINE k0 == <<n, e>>
           l == [listeners[k0] EXCEPT !.policy = p, !.capacity = c]
<1>1. k0 \in Keys /\ listeners[k0] \in Listeners /\ listeners \in [Keys -> Listeners \union {None}]
  BY DEF Keys, NodesTyped, SetListenerPolicy
<1>2. /\ l \in Listeners /\ l # None /\ l.boundType = listeners[k0].boundType
      /\ l.policy # Fifo \/ l.capacity # 0
  BY <1>1, ConstantFacts DEF Listeners, SetListenerPolicy
<1>3. /\ listeners' = [listeners EXCEPT ![k0] = l] /\ listeners[k0] # None
      /\ outputs' = outputs /\ type' = type /\ event' = event /\ dest' = dest /\ minted' = minted
  BY <1>1 DEF SetListenerPolicy, Listeners
<1> HIDE DEF l
<1>4. \A k \in Keys : listeners'[k] = IF k = k0 THEN l ELSE listeners[k]
  BY <1>1, <1>3
<1>5. NodesTyped'
  BY <1>1, <1>2, <1>3 DEF NodesTyped
<1>6. OneHome'
  BY <1>3 DEF GraphInv, OneHome, OutputsOf
<1>7. ListenersHaveRoom'
  BY <1>2, <1>4 DEF GraphInv, ListenersHaveRoom
<1>8. ASSUME NEW m \in Nodes, NEW v \in Events
      PROVE  /\ listeners'[<<m, v>>] = None <=> BoundTo(m, v)' = {}
             /\ \A x \in BoundTo(m, v)' : type'[x] = listeners'[<<m, v>>].boundType
  <2>1. /\ listeners[<<m, v>>] = None <=> BoundTo(m, v) = {}
        /\ \A x \in BoundTo(m, v) : type[x] = listeners[<<m, v>>].boundType
    BY DEF GraphInv, ListenersMirrorBindings
  <2>2. BoundTo(m, v)' = BoundTo(m, v) /\ <<m, v>> \in Keys
    BY <1>3 DEF BoundTo, OutputsOf, Keys
  <2> QED BY <1>2, <1>3, <1>4, <2>1, <2>2
<1>9. ListenersMirrorBindings'
  BY <1>8 DEF ListenersMirrorBindings
<1> QED BY <1>5, <1>6, <1>7, <1>9 DEF GraphInv

(* Connecting and disconnecting touch neither bindings nor listeners.      *)
LEMMA SetDestinationKeeps ==
  ASSUME NodesTyped, GraphInv, NEW n \in Nodes, NEW o \in Outputs, NEW d \in Nodes \union {None},
         SetDestination(n, o, d)
  PROVE  NodesTyped' /\ GraphInv'
<1>1. NodesTyped'
  BY DEF NodesTyped, SetDestination
<1>2. GraphInv'
  BY DEF GraphInv, OneHome, ListenersMirrorBindings, ListenersHaveRoom, BoundTo, OutputsOf, SetDestination
<1> QED BY <1>1, <1>2

(* Any one of the edits. *)
NodeEdit ==
  \E n \in Nodes :
    \/ \E o \in Outputs, t \in ConnectorTypes : AddOutput(n, o, t)
    \/ \E o \in Outputs : RemoveOutput(n, o)
    \/ \E o \in Outputs, e \in Events \union {None} : BindOutputEvent(n, o, e)
    \/ \E o \in Outputs, t \in ConnectorTypes : SetOutputType(n, o, t)
    \/ \E e \in Events, p \in QueuePolicies, c \in Capacities : SetListenerPolicy(n, e, p, c)
    \/ \E o \in Outputs, d \in Nodes \union {None} : SetDestination(n, o, d)

(* Every mutator of a node keeps the graph part of the invariant.          *)
LEMMA NodeEditKeeps ==
  ASSUME NodesTyped, GraphInv, NodeEdit
  PROVE  NodesTyped' /\ GraphInv'
BY AddOutputKeeps, RemoveOutputKeeps, BindOutputEventKeeps, SetOutputTypeKeeps,
   SetListenerPolicyKeeps, SetDestinationKeeps DEF NodeEdit

(* The editor clears what a lost listener held, and so keeps the rest.     *)
LEMMA EditKeeps ==
  ASSUME IInv, EditNext
  PROVE  IInv'
<1>1. NodeEdit /\ Edit(TRUE)
  BY DEF EditNext, NodeEdit, Edit
<1>2. NodesTyped' /\ GraphInv'
  BY <1>1, NodeEditKeeps DEF IInv, TypeOK
<1> DEFINE lost == {k \in Keys : listeners[k] # None /\ listeners'[k] = None}
           made == {k \in Keys : listeners[k] = None /\ listeners'[k] # None}
<1>3. /\ queues' = [k \in Keys |-> IF k \in lost THEN <<>> ELSE queues[k]]
      /\ born' = [k \in Keys |-> IF k \in made THEN nextOrdinal ELSE born[k]]
      /\ UNCHANGED <<dropped, nextOrdinal, manual, lastJump, active, now, result, jumps>>
  BY <1>1 DEF Edit, Emptied
<1>4. PlaybackTyped
  BY DEF IInv, TypeOK
<1>5. PlaybackTyped'
  <2>1. <<>> \in Seq(Nat)
    OBVIOUS
  <2> HIDE DEF lost, made
  <2> QED BY <1>3, <1>4, <2>1 DEF PlaybackTyped
<1>6. ASSUME NEW k \in Keys
      PROVE  /\ \A i \in DOMAIN queues'[k] :
                  listeners'[k] # None /\ born'[k] <= queues'[k][i] /\ queues'[k][i] < nextOrdinal'
             /\ born'[k] <= nextOrdinal'
  <2>1. /\ \A i \in DOMAIN queues[k] :
             listeners[k] # None /\ born[k] <= queues[k][i] /\ queues[k][i] < nextOrdinal
        /\ born[k] <= nextOrdinal
    BY DEF IInv, PendingIsCurrent
  <2>2. nextOrdinal \in Nat
    BY <1>4 DEF PlaybackTyped
  <2>3. CASE k \in lost
    <3>1. queues'[k] = <<>> /\ born'[k] = born[k]
      BY <1>3, <2>3
    <3> QED BY <1>3, <2>1, <3>1
  <2>4. CASE k \in made
    <3>1. queues'[k] = queues[k] /\ born'[k] = nextOrdinal /\ listeners[k] = None
      BY <1>3, <2>4
    <3> QED BY <1>3, <2>1, <2>2, <3>1
  <2>5. CASE k \notin lost /\ k \notin made
    <3>1. queues'[k] = queues[k] /\ born'[k] = born[k] /\ (listeners[k] # None => listeners'[k] # None)
      BY <1>3, <2>5
    <3> QED BY <1>3, <2>1, <3>1
  <2> QED BY <2>3, <2>4, <2>5
<1>7. PendingIsCurrent'
  BY <1>6 DEF PendingIsCurrent
<1>8. JumpsAreTimed' /\ OneJumpPerInstant'
  BY <1>3 DEF IInv, JumpsAreTimed, OneJumpPerInstant
<1> QED BY <1>2, <1>5, <1>7, <1>8 DEF IInv, TypeOK

-----------------------------------------------------------------------------
(* The transport *)

(* What EventQueue::record adds, and that it stays within the capacity.    *)
LEMMA RecordFacts ==
  ASSUME NEW q \in Seq(Nat), NEW policy \in QueuePolicies, NEW x \in Nat, NEW capacity \in Nat
  PROVE  LET r == Record(q, policy, x, capacity)
         IN  r \in Seq(Nat) /\ \A i \in DOMAIN r : r[i] = x \/ \E j \in DOMAIN q : r[i] = q[j]
<1> DEFINE kept == IF Len(q) >= capacity THEN Tail(q) ELSE q
<1>1. CASE policy = Fifo /\ capacity # 0
  <2>1. kept \in Seq(Nat) /\ \A i \in DOMAIN kept : \E j \in DOMAIN q : kept[i] = q[j]
    <3>1. CASE Len(q) >= capacity
      <4>1. q # <<>> /\ Len(q) # 0
        BY <1>1, <3>1
      <4>2. Tail(q) \in Seq(Nat) /\ Len(Tail(q)) = Len(q) - 1 /\ \A i \in 1..(Len(q) - 1) : Tail(q)[i] = q[i + 1]
        BY <4>1
      <4> QED BY <3>1, <4>2
    <3>2. CASE ~(Len(q) >= capacity)
      BY <3>2
    <3> QED BY <3>1, <3>2
  <2> HIDE DEF kept
  <2>2. \A i \in DOMAIN Append(kept, x) : Append(kept, x)[i] = x \/ \E j \in DOMAIN kept : Append(kept, x)[i] = kept[j]
    BY <2>1
  <2>3. Record(q, policy, x, capacity) = Append(kept, x)
    BY <1>1 DEF Record, Fifo, FirstWins, LatestValidWins, kept
  <2> QED BY <2>1, <2>2, <2>3
<1>2. CASE ~(policy = Fifo /\ capacity # 0)
  <2>1. Record(q, policy, x, capacity) \in {q, <<x>>}
    BY <1>2 DEF Record, QueuePolicies, Fifo, FirstWins, LatestValidWins
  <2>2. <<x>> \in Seq(Nat) /\ DOMAIN <<x>> = {1} /\ <<x>>[1] = x
    OBVIOUS
  <2>3. CASE Record(q, policy, x, capacity) = q
    BY <2>3
  <2>4. CASE Record(q, policy, x, capacity) = <<x>>
    BY <2>2, <2>4
  <2> QED BY <2>1, <2>3, <2>4
<1> QED BY <1>1, <1>2

(* Recording an occurrence, at whatever policy, keeps the invariant.       *)
LEMMA RecordKeeps ==
  ASSUME IInv, NEW n \in Nodes, NEW e \in Events, RecordSequentialOccurrence(n, e)
  PROVE  IInv'
<1> DEFINE k0 == <<n, e>>
           l == listeners[k0]
           r == Record(queues[k0], l.policy, nextOrdinal, l.capacity)
<1>1. NodesTyped /\ PlaybackTyped /\ GraphInv /\ PendingIsCurrent
  BY DEF IInv, TypeOK
<1>2. /\ k0 \in Keys /\ l \in Listeners /\ l # None /\ queues[k0] \in Seq(Nat)
      /\ nextOrdinal \in Nat /\ l.policy \in QueuePolicies /\ l.capacity \in Nat
  BY <1>1 DEF NodesTyped, PlaybackTyped, Keys, Listeners, RecordSequentialOccurrence
<1>3. r \in Seq(Nat) /\ \A i \in DOMAIN r : r[i] = nextOrdinal \/ \E j \in DOMAIN queues[k0] : r[i] = queues[k0][j]
  BY <1>2, RecordFacts
<1>4. /\ queues' = [queues EXCEPT ![k0] = r]
      /\ dropped' = [dropped EXCEPT ![k0] = @ + Dropped(queues[k0], l.policy, l.capacity)]
      /\ nextOrdinal' = nextOrdinal + 1
      /\ UNCHANGED <<nodeVars, manual, lastJump, active, now, result, born, jumps>>
  BY DEF RecordSequentialOccurrence
<1> HIDE DEF r, l
<1>5. NodesTyped' /\ GraphInv'
  BY <1>1, <1>4 DEF NodesTyped, GraphInv, OneHome, ListenersMirrorBindings, ListenersHaveRoom,
     BoundTo, OutputsOf, nodeVars
<1>6. PlaybackTyped'
  <2>1. Dropped(queues[k0], l.policy, l.capacity) \in Nat
    BY DEF Dropped
  <2> DEFINE d == Dropped(queues[k0], l.policy, l.capacity)
  <2> HIDE DEF d
  <2>2. dropped' \in [Keys -> Nat]
    <3>1. d \in Nat /\ dropped \in [Keys -> Nat] /\ dropped' = [dropped EXCEPT ![k0] = @ + d]
      BY <1>1, <1>4, <2>1 DEF PlaybackTyped, d
    <3> QED BY <1>2, <3>1
  <2>3. queues' \in [Keys -> Seq(Nat)]
    BY <1>1, <1>3, <1>4 DEF PlaybackTyped
  <2>4. nextOrdinal' \in Nat
    BY <1>2, <1>4
  <2> QED BY <1>1, <1>4, <2>2, <2>3, <2>4 DEF PlaybackTyped
<1>7. PendingIsCurrent'
  <2> SUFFICES ASSUME NEW k \in Keys
      PROVE  /\ \A i \in DOMAIN queues'[k] :
                  listeners'[k] # None /\ born'[k] <= queues'[k][i] /\ queues'[k][i] < nextOrdinal'
             /\ born'[k] <= nextOrdinal'
    BY DEF PendingIsCurrent
  <2>1. /\ \A i \in DOMAIN queues[k] :
             /\ listeners[k] # None /\ born[k] <= queues[k][i] /\ queues[k][i] < nextOrdinal
             /\ queues[k][i] \in Nat
        /\ born[k] <= nextOrdinal /\ born[k] \in Nat
    BY <1>1 DEF PendingIsCurrent, PlaybackTyped
  <2>2. listeners' = listeners /\ born' = born
    BY <1>4 DEF nodeVars
  <2>3. CASE k = k0
    <3>1. queues'[k] = r /\ listeners[k] # None
      BY <1>1, <1>2, <1>4, <2>3 DEF PlaybackTyped, l
    <3>2. \A i \in DOMAIN r : born[k] <= r[i] /\ r[i] < nextOrdinal'
      <4> TAKE i \in DOMAIN r
      <4>1. CASE r[i] = nextOrdinal
        BY <1>2, <1>4, <2>1, <4>1
      <4>2. CASE r[i] # nextOrdinal
        <5>1. PICK j \in DOMAIN queues[k0] : r[i] = queues[k0][j]
          BY <1>3, <4>2
        <5>2. /\ born[k] <= queues[k][j] /\ queues[k][j] < nextOrdinal /\ queues[k][j] \in Nat
          BY <2>1, <2>3, <5>1
        <5> QED BY <1>2, <1>4, <2>3, <5>1, <5>2
      <4> QED BY <4>1, <4>2
    <3> QED BY <1>2, <1>4, <2>1, <2>2, <3>1, <3>2
  <2>4. CASE k # k0
    <3>1. queues'[k] = queues[k]
      BY <1>1, <1>4, <2>4 DEF PlaybackTyped
    <3> QED BY <1>2, <1>4, <2>1, <2>2, <3>1
  <2> QED BY <2>3, <2>4
<1>8. JumpsAreTimed' /\ OneJumpPerInstant'
  BY <1>4 DEF IInv, JumpsAreTimed, OneJumpPerInstant
<1> QED BY <1>5, <1>6, <1>7, <1>8 DEF IInv, TypeOK

-----------------------------------------------------------------------------
(* select_winner() *)

(* The pass over the first n candidates. *)
IsPass(f, c, arrival, n) ==
  f = [i \in 1..n |-> IF i = 1 \/ Beats(c[i], f[i - 1], arrival) THEN c[i] ELSE f[i - 1]]

(* The one pass of select_winner() is the function its definition          *)
(* describes.                                                              *)
LEMMA PassExists ==
  ASSUME NEW c, NEW arrival, NEW n \in Nat
  PROVE  \E f : IsPass(f, c, arrival, n)
<1> DEFINE G == {m \in Nat : \E f : IsPass(f, c, arrival, m)}
<1>1. 0 \in G
  <2>1. IsPass([i \in 1..0 |-> 0], c, arrival, 0)
    BY DEF IsPass
  <2> QED BY <2>1
<1>2. ASSUME NEW m \in Nat, m \in G PROVE m + 1 \in G
  <2>1. PICK f : IsPass(f, c, arrival, m)
    BY <1>2
  <2> DEFINE x == IF m = 0 \/ Beats(c[m + 1], f[m], arrival) THEN c[m + 1] ELSE f[m]
             g == [i \in 1..(m + 1) |-> IF i = m + 1 THEN x ELSE f[i]]
  <2>2. ASSUME NEW i \in 1..(m + 1)
        PROVE  g[i] = IF i = 1 \/ Beats(c[i], g[i - 1], arrival) THEN c[i] ELSE g[i - 1]
    <3>1. CASE i = m + 1
      <4>1. g[i] = x /\ i - 1 = m /\ (m # 0 => g[m] = f[m]) /\ (i = 1 <=> m = 0)
        BY <3>1
      <4> QED BY <3>1, <4>1
    <3>2. CASE i # m + 1
      <4>1. i \in 1..m /\ g[i] = f[i] /\ (i # 1 => g[i - 1] = f[i - 1])
        BY <3>2
      <4>2. f[i] = IF i = 1 \/ Beats(c[i], f[i - 1], arrival) THEN c[i] ELSE f[i - 1]
        BY <2>1, <4>1 DEF IsPass
      <4> QED BY <4>1, <4>2
    <3> QED BY <3>1, <3>2
  <2> HIDE DEF x
  <2>3. IsPass(g, c, arrival, m + 1)
    BY <2>2 DEF IsPass
  <2> QED BY <2>3
<1> HIDE DEF G
<1>3. Nat \subseteq G
  BY <1>1, <1>2, NatInduct
<1> QED BY <1>3 DEF G

(* The winner is where the pass ends.                                      *)
LEMMA WinnerOfPass ==
  ASSUME NEW c, NEW arrival, Len(c) \in Nat
  PROVE  \E f : IsPass(f, c, arrival, Len(c)) /\ SelectWinner(c, arrival) = f[Len(c)]
<1> DEFINE g == CHOOSE f : IsPass(f, c, arrival, Len(c))
<1>1. SelectWinner(c, arrival) = g[Len(c)]
  BY DEF SelectWinner, IsPass
<1>2. IsPass(g, c, arrival, Len(c))
  BY PassExists
<1> QED BY <1>1, <1>2

(* Priority and recency order the candidates: transitive and irreflexive.  *)
LEMMA BeatsIsOrder ==
  ASSUME NEW arrival, NEW x \in Outputs, NEW y \in Outputs, NEW z \in Outputs,
         arrival[x] \in Int, arrival[y] \in Int, arrival[z] \in Int
  PROVE  /\ ~Beats(x, x, arrival)
         /\ Beats(x, y, arrival) => ~Beats(y, x, arrival)
         /\ Beats(x, y, arrival) /\ ~Beats(z, y, arrival) => Beats(x, z, arrival)
<1>1. Priority[x] \in Int /\ Priority[y] \in Int /\ Priority[z] \in Int
  BY StateMachineConstants
<1> QED BY <1>1 DEF Beats

(* One pass finds a candidate that none beats, and the first such.         *)
LEMMA WinnerIsFirstBest ==
  ASSUME NEW c \in Seq(Outputs), c # <<>>, NEW arrival, \A o \in Range(c) : arrival[o] \in Int
  PROVE  \E p \in 1..Len(c) :
           /\ SelectWinner(c, arrival) = c[p]
           /\ \A j \in 1..Len(c) : ~Beats(c[j], c[p], arrival)
           /\ \A j \in 1..Len(c) : j < p => Beats(c[p], c[j], arrival)
<1> DEFINE n == Len(c)
<1>1. n \in Nat /\ n # 0 /\ \A i \in 1..n : c[i] \in Outputs /\ c[i] \in Range(c)
  BY DEF Range
<1>2. PICK f : IsPass(f, c, arrival, n) /\ SelectWinner(c, arrival) = f[n]
  BY <1>1, WinnerOfPass
<1> DEFINE Best(p, i) == /\ f[i] = c[p]
                         /\ \A j \in 1..i : ~Beats(c[j], c[p], arrival)
                         /\ \A j \in 1..i : j < p => Beats(c[p], c[j], arrival)
           G == {i \in Nat : i \in 1..n => \E p \in 1..i : Best(p, i)}
<1>3. \A i \in 1..n : f[i] = IF i = 1 \/ Beats(c[i], f[i - 1], arrival) THEN c[i] ELSE f[i - 1]
  BY <1>2 DEF IsPass
<1>4. 0 \in G
  BY <1>1
<1>5. ASSUME NEW i \in Nat, i \in G PROVE i + 1 \in G
  <2> SUFFICES ASSUME i + 1 \in 1..n PROVE \E p \in 1..(i + 1) : Best(p, i + 1)
    OBVIOUS
  <2>1. f[i + 1] = IF i = 0 \/ Beats(c[i + 1], f[i], arrival) THEN c[i + 1] ELSE f[i]
    <3>1. i + 1 \in 1..n /\ (i + 1) - 1 = i /\ (i + 1 = 1 <=> i = 0)
      OBVIOUS
    <3> QED BY <1>3, <3>1
  <2>2. \A j \in 1..(i + 1) : j \in 1..n /\ c[j] \in Outputs /\ arrival[c[j]] \in Int
    BY <1>1
  <2>3. \A j \in 1..(i + 1) : ~Beats(c[j], c[j], arrival)
    BY <2>2, BeatsIsOrder
  <2>4. CASE i = 0
    <3>1. f[1] = c[1] /\ 1..(i + 1) = {1}
      BY <2>1, <2>4
    <3>2. Best(1, i + 1)
      BY <2>3, <2>4, <3>1
    <3> QED BY <3>1, <3>2
  <2>5. CASE i # 0
    <3>1. PICK p \in 1..i : Best(p, i)
      BY <1>5, <2>5
    <3>2. CASE Beats(c[i + 1], c[p], arrival)
      <4>1. f[i + 1] = c[i + 1]
        BY <2>1, <2>5, <3>1, <3>2
      <4>2. ASSUME NEW j \in 1..i
            PROVE  Beats(c[i + 1], c[j], arrival) /\ ~Beats(c[j], c[i + 1], arrival)
        <5>1. /\ c[i + 1] \in Outputs /\ c[p] \in Outputs /\ c[j] \in Outputs
              /\ arrival[c[i + 1]] \in Int /\ arrival[c[p]] \in Int /\ arrival[c[j]] \in Int
          BY <2>2
        <5>2. ~Beats(c[j], c[p], arrival)
          BY <3>1
        <5>3. Beats(c[i + 1], c[j], arrival)
          BY <3>2, <5>1, <5>2, BeatsIsOrder
        <5> QED BY <5>1, <5>3, BeatsIsOrder
      <4>3. \A j \in 1..(i + 1) : j \in 1..i \/ j = i + 1
        OBVIOUS
      <4>4. Best(i + 1, i + 1)
        BY <2>3, <4>1, <4>2, <4>3
      <4> QED BY <4>4
    <3>3. CASE ~Beats(c[i + 1], c[p], arrival)
      <4>1. f[i + 1] = c[p]
        BY <2>1, <2>5, <3>1, <3>3
      <4>2. \A j \in 1..(i + 1) : j \in 1..i \/ j = i + 1
        OBVIOUS
      <4>3. Best(p, i + 1)
        BY <3>1, <3>3, <4>1, <4>2
      <4> QED BY <4>3
    <3> QED BY <3>2, <3>3
  <2> QED BY <2>4, <2>5
<1> HIDE DEF G
<1>6. n \in G
  BY <1>1, <1>4, <1>5, NatInduct
<1> QED BY <1>1, <1>2, <1>6 DEF G

-----------------------------------------------------------------------------
(* Boundaries and jumps *)

(* Filtering keeps the connector order. *)
LEMMA PositionOrder ==
  ASSUME NodesTyped, GraphInv, NEW n \in Nodes, NEW S,
         NEW i \in 1..Len(Kept(outputs[n], S)), NEW j \in 1..Len(Kept(outputs[n], S)), i < j
  PROVE  Position(n, Kept(outputs[n], S)[i]) < Position(n, Kept(outputs[n], S)[j])
<1> DEFINE s == outputs[n]
<1>1. s \in Seq(Outputs) /\ IsInjective(s)
  BY DEF NodesTyped, GraphInv, OneHome
<1>2. i \in 1..Len(Kept(s, S)) /\ j \in 1..Len(Kept(s, S)) /\ i < j
  OBVIOUS
<1>3. ASSUME NEW a \in 1..Len(s) PROVE Position(n, s[a]) = a
  BY <1>1 DEF Position, IsInjective
<1> HIDE DEF s
<1>4. \E a, b \in 1..Len(s) : a < b /\ s[a] = Kept(s, S)[i] /\ s[b] = Kept(s, S)[j]
  BY <1>1, <1>2, KeptOrder
<1>5. Position(n, Kept(s, S)[i]) < Position(n, Kept(s, S)[j])
  BY <1>3, <1>4
<1> QED BY <1>5 DEF s

(* The group of a node is a subsequence of its sequential, connected       *)
(* outputs.                                                                *)
LEMMA GroupFacts ==
  ASSUME NodesTyped, NEW n \in Nodes
  PROVE  Group(n) \in Seq(Outputs) /\ Range(Group(n)) = {o \in OutputsOf(n) : Followable(o)}
<1>1. outputs[n] \in Seq(Outputs)
  BY DEF NodesTyped
<1> QED BY <1>1, KeptType, KeptMembers DEF Group, OutputsOf

(* So are the candidates of a boundary, each with an occurrence waiting.   *)
LEMMA CandidatesFacts ==
  ASSUME NodesTyped, NEW n \in Nodes
  PROVE  /\ Candidates(n) \in Seq(Outputs)
         /\ Candidates(n) = Kept(outputs[n], {o \in OutputsOf(n) : Followable(o)}
                                               \intersect {o \in OutputsOf(n) : HasIntent(n, o)})
         /\ Range(Candidates(n)) = Willing(n)
<1>1. outputs[n] \in Seq(Outputs)
  BY DEF NodesTyped
<1> DEFINE S == {o \in OutputsOf(n) : Followable(o)}
           R == {o \in OutputsOf(n) : HasIntent(n, o)}
<1>2. S \intersect R = Willing(n) /\ Willing(n) \subseteq Range(outputs[n])
  BY DEF Willing, Followable, HasIntent, OutputsOf
<1>3. Candidates(n) = Kept(Kept(outputs[n], S), R)
  BY DEF Candidates, Group
<1> HIDE DEF S, R
<1>4. Candidates(n) = Kept(outputs[n], S \intersect R)
  BY <1>1, <1>3, KeptTwice
<1>5. Candidates(n) \in Seq(Outputs) /\ Range(Candidates(n)) = Range(outputs[n]) \intersect (S \intersect R)
  BY <1>1, <1>4, KeptType, KeptMembers
<1> QED BY <1>2, <1>4, <1>5 DEF S, R

(* A sequence without elements is empty.                                   *)
LEMMA EmptyRange ==
  ASSUME NEW X, NEW s \in Seq(X)
  PROVE  s = <<>> <=> Range(s) = {}
<1>1. s # <<>> => 1 \in DOMAIN s
  OBVIOUS
<1> QED BY <1>1 DEF Range

(* The winner of the event tier is the output preferred to every other. *)
LEMMA EventWinner ==
  ASSUME IInv, NEW n \in Nodes, Candidates(n) # <<>>
  PROVE  LET w == SelectWinner(Candidates(n), Arrival(n))
         IN  w \in Willing(n) /\ \A x \in Willing(n) \ {w} : Preferred(n, w, x)
<1> DEFINE c == Candidates(n)
           S == {o \in OutputsOf(n) : Followable(o)} \intersect {o \in OutputsOf(n) : HasIntent(n, o)}
<1>1. NodesTyped /\ GraphInv /\ PlaybackTyped
  BY DEF IInv, TypeOK
<1>2. c \in Seq(Outputs) /\ c = Kept(outputs[n], S) /\ Range(c) = Willing(n)
  BY <1>1, CandidatesFacts
<1>3. ASSUME NEW o \in Willing(n)
      PROVE  Arrival(n)[o] = Head(queues[<<n, event[o]>>]) /\ Head(queues[<<n, event[o]>>]) \in Nat /\ o \in Outputs
  <2>1. o \in Range(c) /\ o \in OutputsOf(n) /\ o \in Outputs
    <3>1. o \in Range(c) /\ o \in OutputsOf(n)
      BY <1>2 DEF Willing
    <3> HIDE DEF c, S
    <3>2. Range(c) \subseteq Outputs
      BY <1>2, RangeOfSeq
    <3> QED BY <3>1, <3>2
  <2>2. <<n, event[o]>> \in Keys /\ queues[<<n, event[o]>>] # <<>>
    BY <1>1, <2>1 DEF Willing, Keys, NodesTyped
  <2>3. queues[<<n, event[o]>>] \in Seq(Nat)
    BY <1>1, <2>2 DEF PlaybackTyped
  <2> QED BY <2>1, <2>2, <2>3 DEF Arrival, Peek
<1> HIDE DEF c, S
<1>4. PICK p \in 1..Len(c) :
           /\ SelectWinner(c, Arrival(n)) = c[p]
           /\ \A j \in 1..Len(c) : ~Beats(c[j], c[p], Arrival(n))
           /\ \A j \in 1..Len(c) : j < p => Beats(c[p], c[j], Arrival(n))
  <2>1. \A o \in Range(c) : Arrival(n)[o] \in Int
    <3>1. \A o \in Willing(n) : Arrival(n)[o] \in Nat
      BY <1>3
    <3> QED BY <1>2, <3>1
  <2> QED BY <1>2, <2>1, WinnerIsFirstBest DEF c
<1>5. \A j \in 1..Len(c) : c[j] \in Willing(n)
  BY <1>2 DEF Range
<1>6. ASSUME NEW x \in Willing(n), x # c[p] PROVE Preferred(n, c[p], x)
  <2>1. PICK j \in 1..Len(c) : x = c[j] /\ j # p
    BY <1>2, <1>6 DEF Range
  <2>2. /\ c[p] \in Outputs /\ x \in Outputs
        /\ Arrival(n)[c[p]] = Head(queues[<<n, event[c[p]]>>]) /\ Arrival(n)[c[p]] \in Nat
        /\ Arrival(n)[x] = Head(queues[<<n, event[x]>>]) /\ Arrival(n)[x] \in Nat
    BY <1>3, <1>5
  <2>3. Priority[c[p]] \in Int /\ Priority[x] \in Int
    BY <2>2, StateMachineConstants
  <2>4. ~Beats(x, c[p], Arrival(n)) /\ (j < p => Beats(c[p], x, Arrival(n)))
    BY <1>4, <2>1
  <2>5. p < j => Position(n, c[p]) < Position(n, x)
    BY <1>1, <1>2, <2>1, PositionOrder
  <2>6. p < j \/ j < p
    BY <2>1
  <2> QED BY <2>2, <2>3, <2>4, <2>5, <2>6 DEF Preferred, Beats
<1> QED BY <1>4, <1>5, <1>6 DEF c

(* The winner of a jump. *)
LEMMA JumpWinner ==
  ASSUME IInv, NEW n \in Nodes, NEW fired, VerticalCandidates(n, fired) # <<>>
  PROVE  LET c == VerticalCandidates(n, fired)
             w == SelectWinner(c, [o \in Range(c) |-> 0])
         IN  /\ w \in Range(c) /\ w \in Outputs
             /\ Range(c) = {o \in OutputsOf(n) : /\ type[o] = Vertical /\ dest[o] # None
                                                 /\ event[o] \in fired /\ <<n, dest[o]>> \in Compatible}
             /\ \A x \in Range(c) \ {w} :
                  \/ Priority[w] > Priority[x]
                  \/ Priority[w] = Priority[x] /\ Position(n, w) < Position(n, x)
<1> DEFINE S == {o \in OutputsOf(n) : /\ type[o] = Vertical /\ dest[o] # None
                                     /\ event[o] \in fired /\ <<n, dest[o]>> \in Compatible}
           c == VerticalCandidates(n, fired)
           zero == [o \in Range(c) |-> 0]
<1>1. NodesTyped /\ GraphInv /\ outputs[n] \in Seq(Outputs)
  BY DEF IInv, TypeOK, NodesTyped
<1>2. c = Kept(outputs[n], S) /\ S \subseteq Range(outputs[n])
  BY DEF VerticalCandidates, OutputsOf
<1> HIDE DEF S, c
<1>3. c \in Seq(Outputs) /\ Range(c) = S
  <2>1. Range(c) = Range(outputs[n]) \intersect S
    BY <1>1, <1>2, KeptMembers
  <2> QED BY <1>1, <1>2, <2>1, KeptType
<1>4. \A o \in Range(c) : zero[o] = 0 /\ zero[o] \in Int
  OBVIOUS
<1> HIDE DEF zero
<1>5. PICK p \in 1..Len(c) :
           /\ SelectWinner(c, zero) = c[p]
           /\ \A j \in 1..Len(c) : ~Beats(c[j], c[p], zero)
           /\ \A j \in 1..Len(c) : j < p => Beats(c[p], c[j], zero)
  BY <1>3, <1>4, WinnerIsFirstBest DEF c
<1>6. ASSUME NEW x \in Range(c), x # c[p]
      PROVE  \/ Priority[c[p]] > Priority[x]
             \/ Priority[c[p]] = Priority[x] /\ Position(n, c[p]) < Position(n, x)
  <2>1. PICK j \in 1..Len(c) : x = c[j] /\ j # p
    BY <1>3, <1>6 DEF Range
  <2>2. c[p] \in Outputs /\ x \in Outputs /\ zero[c[p]] = 0 /\ zero[x] = 0
    BY <1>3, <1>4, <2>1 DEF Range
  <2>3. Priority[c[p]] \in Int /\ Priority[x] \in Int
    BY <2>2, StateMachineConstants
  <2>4. ~Beats(x, c[p], zero) /\ (j < p => Beats(c[p], x, zero))
    BY <1>5, <2>1
  <2>5. p < j => Position(n, c[p]) < Position(n, x)
    BY <1>1, <1>2, <2>1, PositionOrder
  <2>6. p < j \/ j < p
    BY <2>1
  <2> QED BY <2>2, <2>3, <2>4, <2>5, <2>6 DEF Beats
<1>7. c[p] \in Range(c) /\ c[p] \in Outputs
  BY <1>3 DEF Range
<1> QED BY <1>3, <1>5, <1>6, <1>7 DEF c, S, zero

-----------------------------------------------------------------------------
(* The transport preserves the invariant *)

(* The transport never touches the graph.                                  *)
LEMMA NodesStay ==
  ASSUME NodesTyped, GraphInv, UNCHANGED nodeVars
  PROVE  NodesTyped' /\ GraphInv'
BY DEF NodesTyped, GraphInv, OneHome, ListenersMirrorBindings, ListenersHaveRoom, BoundTo, OutputsOf, nodeVars

(* A step that only takes occurrences out of queues leaves them current.   *)
LEMMA PendingShrinks ==
  ASSUME PendingIsCurrent, UNCHANGED <<listeners, born, nextOrdinal>>,
         \A k \in Keys : \A i \in DOMAIN queues'[k] : \E j \in DOMAIN queues[k] : queues'[k][i] = queues[k][j]
  PROVE  PendingIsCurrent'
<1> SUFFICES ASSUME NEW k \in Keys
    PROVE  /\ \A i \in DOMAIN queues'[k] :
                listeners'[k] # None /\ born'[k] <= queues'[k][i] /\ queues'[k][i] < nextOrdinal'
           /\ born'[k] <= nextOrdinal'
  BY DEF PendingIsCurrent
<1>1. /\ \A i \in DOMAIN queues[k] :
             listeners[k] # None /\ born[k] <= queues[k][i] /\ queues[k][i] < nextOrdinal
      /\ born[k] <= nextOrdinal
  BY DEF PendingIsCurrent
<1> QED BY <1>1

(* Consuming takes the oldest occurrence and leaves the others as they     *)
(* were.                                                                   *)
LEMMA TailFacts ==
  ASSUME NEW X, NEW q \in Seq(X), q # <<>>
  PROVE  /\ Tail(q) \in Seq(X) /\ Head(q) \in X
         /\ \A i \in DOMAIN Tail(q) : \E j \in DOMAIN q : Tail(q)[i] = q[j]
<1>1. Tail(q) \in Seq(X) /\ Len(Tail(q)) = Len(q) - 1 /\ \A i \in 1..(Len(q) - 1) : Tail(q)[i] = q[i + 1]
  OBVIOUS
<1> QED BY <1>1

(* The event tier takes the front of the winner's queue.                   *)
LEMMA EventTierFacts ==
  ASSUME IInv, NEW n \in Nodes, EventTier(n)
  PROVE  LET w == SelectWinner(Candidates(n), Arrival(n))
             k == <<n, event[w]>>
         IN  /\ w \in Willing(n) /\ w \in Outputs /\ k \in Keys /\ queues[k] # <<>>
             /\ \A x \in Willing(n) \ {w} : Preferred(n, w, x)
             /\ queues' = [queues EXCEPT ![k] = Tail(@)]
             /\ result' = [winner |-> w, tier |-> "event_intent"] /\ active' = dest[w]
             /\ manual' = [manual EXCEPT ![n] = None]
             /\ fresh' = [fresh EXCEPT ![k] = Remaining(@, queues[k])]
<1> DEFINE w == SelectWinner(Candidates(n), Arrival(n))
           k == <<n, event[w]>>
<1>1. NodesTyped /\ PlaybackTyped
  BY DEF IInv, TypeOK
<1>2. w \in Willing(n) /\ \A x \in Willing(n) \ {w} : Preferred(n, w, x)
  BY EventWinner DEF EventTier
<1>3. /\ queues' = [queues EXCEPT ![k] = Consume(@)]
      /\ fresh' = [fresh EXCEPT ![k] = Remaining(@, queues[k])]
      /\ Follow(w, "event_intent") /\ manual' = [manual EXCEPT ![n] = None]
  BY DEF EventTier
<1> HIDE DEF w
<1>4. Range(outputs[n]) \subseteq Outputs
  BY <1>1, RangeOfSeq DEF NodesTyped
<1>5. w \in Outputs /\ k \in Keys /\ queues[k] # <<>> /\ w # None
  BY <1>1, <1>2, <1>4, ConstantFacts DEF Willing, OutputsOf, Keys, NodesTyped
<1>6. queues' = [queues EXCEPT ![k] = Tail(@)]
  BY <1>3, <1>5 DEF Consume
<1>7. result' = [winner |-> w, tier |-> "event_intent"] /\ active' = dest[w]
  BY <1>3, <1>5 DEF Follow
<1> QED BY <1>2, <1>3, <1>5, <1>6, <1>7 DEF w

(* What a boundary that event intent does not decide leaves.               *)
LEMMA OtherTierFacts ==
  ASSUME IInv, NEW n \in Nodes, StopTier(n) \/ ManualTier(n) \/ RandomTier(n)
  PROVE  /\ Willing(n) = {} /\ UNCHANGED <<queues, fresh>> /\ manual' = [manual EXCEPT ![n] = None]
         /\ result'.winner = None => active' = None
         /\ result'.winner # None => /\ active' = dest[result'.winner] /\ result'.winner \in Outputs
                                    /\ result'.winner \in OutputsOf(n) /\ Followable(result'.winner)
         /\ result'.tier # "event_intent"
<1>1. NodesTyped /\ PlaybackTyped
  BY DEF IInv, TypeOK
<1>2. Range(outputs[n]) \subseteq Outputs /\ OutputsOf(n) = Range(outputs[n])
  BY <1>1, RangeOfSeq DEF NodesTyped, OutputsOf
<1>3. Range(Group(n)) = {o \in OutputsOf(n) : Followable(o)}
  BY <1>1, GroupFacts
<1>4. Willing(n) = {}
  <2>1. CASE Group(n) = <<>>
    <3>1. Range(Group(n)) = {}
      BY <1>1, <2>1, GroupFacts, EmptyRange
    <3> QED BY <1>3, <3>1 DEF Willing, Followable
  <2>2. CASE Candidates(n) = <<>>
    <3>1. Candidates(n) \in Seq(Outputs) /\ Range(Candidates(n)) = Willing(n)
      BY <1>1, CandidatesFacts
    <3> QED BY <2>2, <3>1, EmptyRange
  <2> QED BY <2>1, <2>2 DEF StopTier, ManualTier, RandomTier
<1>5. CASE StopTier(n)
  BY <1>4, <1>5 DEF StopTier, Follow
<1>6. CASE ManualTier(n)
  <2>1. manual[n] \in OutputsOf(n) /\ Followable(manual[n]) /\ manual[n] # None
    BY <1>2, <1>6, ConstantFacts DEF ManualTier, ManualUsable
  <2> QED BY <1>2, <1>4, <1>6, <2>1 DEF ManualTier, Follow
<1>7. CASE RandomTier(n)
  <2>1. PICK winner \in Drawn(n) : Follow(winner, IF winner = None THEN "stop" ELSE "weighted_random")
    BY <1>7 DEF RandomTier
  <2>2. winner # None => winner \in OutputsOf(n) /\ Followable(winner)
    BY <1>3 DEF Drawn
  <2>3. result'.winner = winner /\ result'.tier # "event_intent"
        /\ active' = IF winner = None THEN None ELSE dest[winner]
    BY <2>1 DEF Follow
  <2> QED BY <1>2, <1>4, <1>7, <2>2, <2>3 DEF RandomTier
<1> QED BY <1>5, <1>6, <1>7

(* A boundary spends at most one occurrence, and keeps the invariant.      *)
LEMMA CrossBoundaryKeeps ==
  ASSUME IInv, CrossBoundary
  PROVE  IInv'
<1>1. NodesTyped /\ PlaybackTyped /\ GraphInv /\ PendingIsCurrent
  BY DEF IInv, TypeOK
<1>2. active \in Nodes /\ UNCHANGED <<nodeVars, dropped, nextOrdinal, lastJump, now, born, jumps>>
  BY <1>1 DEF CrossBoundary, PlaybackTyped
<1> DEFINE n == active
<1>3. NodesTyped' /\ GraphInv'
  BY <1>1, <1>2, NodesStay
<1>4. JumpsAreTimed' /\ OneJumpPerInstant'
  BY <1>2 DEF IInv, JumpsAreTimed, OneJumpPerInstant
<1>5. /\ queues' \in [Keys -> Seq(Nat)]
      /\ active' \in Nodes \union {None} /\ manual' = [manual EXCEPT ![n] = None]
      /\ \A k \in Keys : \A i \in DOMAIN queues'[k] : \E j \in DOMAIN queues[k] : queues'[k][i] = queues[k][j]
  <2>1. CASE EventTier(n)
    <3> DEFINE w == SelectWinner(Candidates(n), Arrival(n))
               k == <<n, event[w]>>
    <3>1. /\ w \in Outputs /\ k \in Keys /\ queues[k] # <<>>
          /\ queues' = [queues EXCEPT ![k] = Tail(@)] /\ active' = dest[w]
          /\ manual' = [manual EXCEPT ![n] = None]
      BY <1>2, <2>1, EventTierFacts
    <3> HIDE DEF w, k
    <3>2. queues \in [Keys -> Seq(Nat)] /\ queues[k] \in Seq(Nat)
      BY <1>1, <3>1 DEF PlaybackTyped
    <3>3. Tail(queues[k]) \in Seq(Nat) /\ \A i \in DOMAIN Tail(queues[k]) : \E j \in DOMAIN queues[k] : Tail(queues[k])[i] = queues[k][j]
      BY <3>1, <3>2, TailFacts
    <3>4. \A m \in Keys : queues'[m] = IF m = k THEN Tail(queues[k]) ELSE queues[m]
      BY <3>1, <3>2
    <3>5. \A m \in Keys : \A i \in DOMAIN queues'[m] : \E j \in DOMAIN queues[m] : queues'[m][i] = queues[m][j]
      BY <3>3, <3>4
    <3>6. dest[w] \in Nodes \union {None}
      BY <1>1, <3>1 DEF NodesTyped
    <3> QED BY <3>1, <3>2, <3>3, <3>5, <3>6
  <2>2. CASE StopTier(n) \/ ManualTier(n) \/ RandomTier(n)
    <3>1. /\ UNCHANGED <<queues, fresh>> /\ manual' = [manual EXCEPT ![n] = None]
          /\ active' = None \/ \E o \in Outputs : active' = dest[o]
      BY <1>2, <2>2, OtherTierFacts
    <3>2. active' \in Nodes \union {None}
      BY <1>1, <3>1 DEF NodesTyped
    <3> QED BY <1>1, <3>1, <3>2 DEF PlaybackTyped
  <2> QED BY <1>2, <2>1, <2>2 DEF CrossBoundary
<1>6. PlaybackTyped'
  <2>1. manual' \in [Nodes -> Outputs \union {None}]
    BY <1>1, <1>5 DEF PlaybackTyped
  <2> QED BY <1>1, <1>2, <1>5, <2>1 DEF PlaybackTyped
<1>7. PendingIsCurrent'
  BY <1>1, <1>2, <1>5, PendingShrinks DEF nodeVars
<1> QED BY <1>3, <1>4, <1>6, <1>7 DEF IInv, TypeOK

(* A jump is recorded at the present instant, and keeps the invariant.     *)
LEMMA ResolveVerticalKeeps ==
  ASSUME IInv, NEW fired \in SUBSET Events, ResolveVertical(fired)
  PROVE  IInv'
<1> DEFINE c == VerticalCandidates(active, fired)
           w == SelectWinner(c, [o \in Range(c) |-> 0])
<1>1. NodesTyped /\ PlaybackTyped /\ GraphInv /\ PendingIsCurrent /\ JumpsAreTimed /\ OneJumpPerInstant
  BY DEF IInv, TypeOK
<1>2. /\ active \in Nodes /\ lastJump' = now /\ jumps' = Append(jumps, now) /\ Follow(w, "vertical")
      /\ lastJump # None => now > lastJump
      /\ UNCHANGED <<nodeVars, queues, dropped, nextOrdinal, manual, now, born, fresh>>
  BY <1>1 DEF ResolveVertical, PlaybackTyped, JumpAllowed
<1>3. w \in Outputs
  BY <1>2, JumpWinner DEF ResolveVertical
<1> HIDE DEF w
<1>4. active' \in Nodes \union {None}
  BY <1>1, <1>2, <1>3 DEF Follow, NodesTyped
<1>5. NodesTyped' /\ GraphInv'
  BY <1>1, <1>2, NodesStay
<1>6. PlaybackTyped'
  BY <1>1, <1>2, <1>4 DEF PlaybackTyped
<1>7. PendingIsCurrent'
  BY <1>1, <1>2 DEF PendingIsCurrent, nodeVars
<1>8. JumpsAreTimed' /\ OneJumpPerInstant'
  <2> DEFINE m == Len(jumps)
  <2>1. /\ jumps \in Seq(Nat) /\ now \in Nat /\ m \in Nat /\ jumps' \in Seq(Nat)
        /\ lastJump \in Nat \union {None}
        /\ Len(jumps') = m + 1 /\ jumps'[m + 1] = now /\ \A i \in 1..m : jumps'[i] = jumps[i] /\ jumps[i] \in Nat
        /\ now \notin {None}
    BY <1>1, <1>2, ConstantFacts DEF PlaybackTyped
  <2>2. \A i \in 1..m : jumps[i] < now
    <3>1. jumps # <<>> => lastJump \in Nat /\ lastJump < now
      BY <1>1, <1>2, <2>1 DEF JumpsAreTimed
    <3>2. \A i \in 1..m : jumps # <<>> /\ jumps[i] <= lastJump
      BY <1>1, <2>1 DEF JumpsAreTimed
    <3> QED BY <2>1, <3>1, <3>2
  <2>3. JumpsAreTimed'
    <3>1. jumps' # <<>> /\ lastJump' = now /\ now' = now
      BY <1>2, <2>1
    <3>2. ASSUME NEW i \in 1..(m + 1) PROVE jumps'[i] <= now
      <4>1. CASE i = m + 1
        BY <2>1, <4>1
      <4>2. CASE i # m + 1
        <5>1. i \in 1..m
          BY <2>1, <4>2
        <5>2. jumps'[i] = jumps[i] /\ jumps[i] < now /\ jumps[i] \in Nat /\ now \in Nat
          BY <2>1, <2>2, <5>1
        <5> QED BY <5>2
      <4> QED BY <4>1, <4>2
    <3> QED BY <2>1, <3>1, <3>2 DEF JumpsAreTimed
  <2>4. OneJumpPerInstant'
    <3> SUFFICES ASSUME NEW i \in 2..(m + 1) PROVE jumps'[i - 1] < jumps'[i]
      BY <2>1 DEF OneJumpPerInstant
    <3>1. CASE i = m + 1
      <4>1. i - 1 \in 1..m
        BY <3>1, <2>1
      <4> QED BY <2>1, <2>2, <3>1, <4>1
    <3>2. CASE i # m + 1
      <4>1. i \in 2..m /\ i \in 1..m /\ i - 1 \in 1..m
        BY <3>2, <2>1
      <4> QED BY <1>1, <2>1, <4>1 DEF OneJumpPerInstant
    <3> QED BY <3>1, <3>2
  <2> QED BY <2>3, <2>4
<1> QED BY <1>5, <1>6, <1>7, <1>8 DEF IInv, TypeOK

(* Queueing a manual transition touches nothing the invariant speaks of.   *)
LEMMA ManualKeeps ==
  ASSUME IInv, NEW o \in Outputs, QueueManualTransition(o)
  PROVE  IInv'
<1>1. NodesTyped' /\ GraphInv'
  BY NodesStay DEF QueueManualTransition, IInv, TypeOK
<1>2. PlaybackTyped'
  BY DEF QueueManualTransition, IInv, TypeOK, PlaybackTyped, history
<1>3. PendingIsCurrent' /\ JumpsAreTimed' /\ OneJumpPerInstant'
  BY DEF QueueManualTransition, IInv, PendingIsCurrent, JumpsAreTimed, OneJumpPerInstant, nodeVars, history
<1> QED BY <1>1, <1>2, <1>3 DEF IInv, TypeOK

(* The clock only moves forward, so no recorded jump comes to lie ahead.   *)
LEMMA TickKeeps ==
  ASSUME IInv, Tick
  PROVE  IInv'
<1>1. NodesTyped' /\ GraphInv'
  BY NodesStay DEF Tick, IInv, TypeOK
<1>2. PlaybackTyped'
  BY DEF Tick, IInv, TypeOK, PlaybackTyped, esmVars, history
<1>3. PendingIsCurrent' /\ OneJumpPerInstant'
  BY DEF Tick, IInv, PendingIsCurrent, OneJumpPerInstant, nodeVars, esmVars, history
<1>4. JumpsAreTimed'
  <2>1. now \in Nat /\ lastJump \in Nat \union {None} /\ now' = now + 1
    BY DEF Tick, IInv, TypeOK, PlaybackTyped
  <2> QED BY <2>1 DEF Tick, IInv, JumpsAreTimed, esmVars, history
<1> QED BY <1>1, <1>2, <1>3, <1>4 DEF IInv, TypeOK

(* Clearing empties the queues of the given keys and no other.             *)
LEMMA EmptiedFacts ==
  ASSUME NEW f \in [Keys -> Seq(Nat)], NEW keys
  PROVE  /\ Emptied(f, keys) \in [Keys -> Seq(Nat)]
         /\ \A k \in Keys : \A i \in DOMAIN Emptied(f, keys)[k] :
               \E j \in DOMAIN f[k] : Emptied(f, keys)[k][i] = f[k][j]
<1>1. <<>> \in Seq(Nat) /\ DOMAIN <<>> = {}
  OBVIOUS
<1>2. \A k \in Keys : Emptied(f, keys)[k] = IF k \in keys THEN <<>> ELSE f[k]
  BY DEF Emptied
<1>3. Emptied(f, keys) \in [Keys -> Seq(Nat)]
  BY <1>1 DEF Emptied
<1> QED BY <1>1, <1>2, <1>3

(* Clearing one node keeps the invariant.                                  *)
LEMMA ClearNodeKeeps ==
  ASSUME IInv, NEW n \in Nodes, ClearNode(n)
  PROVE  IInv'
<1>1. PlaybackTyped /\ PendingIsCurrent
  BY DEF IInv, TypeOK
<1>2. NodesTyped' /\ GraphInv'
  BY NodesStay DEF ClearNode, IInv, TypeOK
<1>3. /\ queues' \in [Keys -> Seq(Nat)]
      /\ \A k \in Keys : \A i \in DOMAIN queues'[k] : \E j \in DOMAIN queues[k] : queues'[k][i] = queues[k][j]
  <2>1. queues \in [Keys -> Seq(Nat)]
    BY <1>1 DEF PlaybackTyped
  <2>2. \E keys : queues' = Emptied(queues, keys)
    BY DEF ClearNode
  <2> QED BY <2>1, <2>2, EmptiedFacts
<1>4. PlaybackTyped'
  BY <1>1, <1>3 DEF ClearNode, PlaybackTyped
<1>5. PendingIsCurrent'
  BY <1>1, <1>3, PendingShrinks DEF ClearNode, nodeVars
<1>6. JumpsAreTimed' /\ OneJumpPerInstant'
  BY DEF ClearNode, IInv, JumpsAreTimed, OneJumpPerInstant
<1> QED BY <1>2, <1>4, <1>5, <1>6 DEF IInv, TypeOK

(* Clearing everything keeps the invariant, and forgets the last jump.     *)
LEMMA ClearAllKeeps ==
  ASSUME IInv, NEW n \in Nodes \union {None}, ClearAll(n)
  PROVE  IInv'
<1>1. PlaybackTyped /\ PendingIsCurrent
  BY DEF IInv, TypeOK
<1>2. NodesTyped' /\ GraphInv'
  BY NodesStay DEF ClearAll, IInv, TypeOK
<1>3. /\ queues' \in [Keys -> Seq(Nat)]
      /\ \A k \in Keys : \A i \in DOMAIN queues'[k] : \E j \in DOMAIN queues[k] : queues'[k][i] = queues[k][j]
  <2>1. queues \in [Keys -> Seq(Nat)]
    BY <1>1 DEF PlaybackTyped
  <2>2. \E keys : queues' = Emptied(queues, keys)
    BY DEF ClearAll
  <2> QED BY <2>1, <2>2, EmptiedFacts
<1>4. PlaybackTyped'
  BY <1>1, <1>3 DEF ClearAll, PlaybackTyped
<1>5. PendingIsCurrent'
  BY <1>1, <1>3, PendingShrinks DEF ClearAll, nodeVars
<1>6. JumpsAreTimed' /\ OneJumpPerInstant'
  BY DEF ClearAll, JumpsAreTimed, OneJumpPerInstant
<1> QED BY <1>2, <1>4, <1>5, <1>6 DEF IInv, TypeOK

(* A step of something else keeps the invariant.                           *)
LEMMA StutterKeeps ==
  ASSUME IInv, UNCHANGED vars
  PROVE  IInv'
<1>1. NodesTyped' /\ GraphInv'
  BY NodesStay DEF vars, IInv, TypeOK
<1>2. PlaybackTyped'
  BY DEF vars, esmVars, history, IInv, TypeOK, PlaybackTyped
<1>3. PendingIsCurrent' /\ JumpsAreTimed' /\ OneJumpPerInstant'
  BY DEF vars, nodeVars, esmVars, history, IInv, PendingIsCurrent, JumpsAreTimed, OneJumpPerInstant
<1> QED BY <1>1, <1>2, <1>3 DEF IInv, TypeOK

(* The invariant is inductive: every step of the machine and of the editor *)
(* keeps it.                                                               *)
LEMMA NextKeeps == IInv /\ [Next]_vars => IInv'
<1> SUFFICES ASSUME IInv, [Next]_vars PROVE IInv'
  OBVIOUS
<1>1. CASE TransportNext
  BY <1>1, RecordKeeps, CrossBoundaryKeeps, ManualKeeps, ResolveVerticalKeeps, TickKeeps,
     ClearNodeKeeps, ClearAllKeeps DEF TransportNext
<1>2. CASE EditNext
  BY <1>2, EditKeeps
<1>3. CASE UNCHANGED vars
  BY <1>3, StutterKeeps
<1> QED BY <1>1, <1>2, <1>3 DEF Next

(* The inductive invariant holds of every behaviour, edits included.       *)
THEOREM IInvHolds == Spec => []IInv
BY InitIInv, NextKeeps, PTL DEF Spec

-----------------------------------------------------------------------------
(* What it gives *)

(* However the graph is edited while the transport runs (outputs added,    *)
(* removed, bound, retyped, connected, policies changed between any two    *)
(* steps), every node's listeners mirror its bindings and nothing pending  *)
(* is older than the listener it waits for (cleanup_listener_if_unused,    *)
(* clear_event).                                                           *)
THEOREM ListenersStaySound == Spec => []ListenersAreSound
<1>1. ASSUME IInv PROVE ListenersAreSound
  <2>1. ASSUME NEW k \in Keys, queues[k] # <<>>
        PROVE  listeners[k] # None /\ \A i \in DOMAIN queues[k] : queues[k][i] >= born[k]
    <3>1. /\ queues[k] \in Seq(Nat) /\ born[k] \in Nat
          /\ \A i \in DOMAIN queues[k] : listeners[k] # None /\ born[k] <= queues[k][i]
      BY <1>1 DEF IInv, TypeOK, PlaybackTyped, PendingIsCurrent
    <3>2. 1 \in DOMAIN queues[k]
      BY <2>1, <3>1
    <3> QED BY <3>1, <3>2
  <2>2. NoResurrection
    BY <2>1 DEF NoResurrection
  <2> QED BY <1>1, <2>2 DEF ListenersAreSound, IInv, GraphInv
<1> QED BY <1>1, IInvHolds, PTL

(* No instant has two vertical jumps, however many nodes are connected in  *)
(* a cycle and whatever fires (the guard of resolve_vertical_transition).  *)
THEOREM NoSecondJump == Spec => []OneJumpPerInstant
<1>1. IInv => OneJumpPerInstant
  BY DEF IInv
<1> QED BY <1>1, IInvHolds, PTL

(* A group with nothing to draw from does not total Rational(1).           *)
LEMMA NothingWeighsNothing == TotalWeight({}) = 0
BY DEF TotalWeight, MapThenSumSet, MapThenFoldSet

(* Each boundary, from a state of the invariant, obeys the tiers.          *)
LEMMA BoundaryObeysTiers ==
  ASSUME IInv, NEW n \in Nodes, active = n, CrossBoundary
  PROVE  Precedence(n)
<1> DEFINE o == result'.winner
           F == {x \in OutputsOf(n) : type[x] = Sequential /\ dest[x] # None}
<1>1. NodesTyped /\ PlaybackTyped
  BY DEF IInv, TypeOK
<1>2. F = Range(Group(n)) /\ (Group(n) = <<>> <=> F = {}) /\ F \subseteq Outputs
  <2>1. Group(n) \in Seq(Outputs) /\ Range(Group(n)) = F
    BY <1>1, GroupFacts DEF Followable
  <2> HIDE DEF F
  <2> QED BY <2>1, EmptyRange, RangeOfSeq
<1>3. Candidates(n) = <<>> <=> Willing(n) = {}
  <2>1. Candidates(n) \in Seq(Outputs) /\ Range(Candidates(n)) = Willing(n)
    BY <1>1, CandidatesFacts
  <2> QED BY <2>1, EmptyRange
<1>4. Willing(n) \subseteq F /\ None \notin F
  BY <1>2, ConstantFacts DEF Willing
<1>5. manual'[n] = None
  <2>1. manual' = [manual EXCEPT ![n] = None]
    BY DEF CrossBoundary, EventTier, StopTier, ManualTier, RandomTier
  <2> QED BY <1>1, <2>1 DEF PlaybackTyped
<1>6. CASE EventTier(n)
  <2> DEFINE w == SelectWinner(Candidates(n), Arrival(n))
  <2>1. /\ w \in Willing(n) /\ w \in Outputs /\ \A x \in Willing(n) \ {w} : Preferred(n, w, x)
        /\ result' = [winner |-> w, tier |-> "event_intent"] /\ active' = dest[w]
    BY <1>6, EventTierFacts
  <2> HIDE DEF w, F
  <2>2. o = w /\ result'.tier = "event_intent" /\ w \in F /\ w # None
    BY <1>4, <2>1, ConstantFacts
  <2> QED BY <1>5, <2>1, <2>2 DEF F, Precedence
<1>7. CASE StopTier(n) \/ ManualTier(n) \/ RandomTier(n)
  <2>1. /\ Willing(n) = {}
        /\ o # None => active' = dest[o] /\ o \in OutputsOf(n) /\ Followable(o)
    BY <1>7, OtherTierFacts
  <2>2. o # None => o \in F /\ active' = dest[o]
    BY <2>1 DEF Followable
  <2>3. manual[n] \in F <=> ManualUsable(n)
    BY DEF ManualUsable, Followable
  <2>4. CASE StopTier(n)
    <3>1. F = {} /\ TotalWeight(F) # Unit
      BY <1>2, <2>4, NothingWeighsNothing, StateMachineConstants DEF StopTier
    <3> HIDE DEF F
    <3> QED BY <1>5, <2>1, <2>2, <3>1 DEF F, Precedence
  <2>5. CASE ManualTier(n)
    <3>1. manual[n] \in F /\ result' = [winner |-> manual[n], tier |-> "manual_queue"]
      BY <2>3, <2>5 DEF ManualTier, Follow
    <3>2. o # None
      BY <1>4, <3>1
    <3> HIDE DEF F
    <3> QED BY <1>5, <2>1, <2>2, <3>1, <3>2 DEF F, Precedence
  <2>6. CASE RandomTier(n)
    <3>1. manual[n] \notin F
      BY <2>3, <2>6 DEF RandomTier
    <3>2. PICK winner \in Drawn(n) : Follow(winner, IF winner = None THEN "stop" ELSE "weighted_random")
      BY <2>6 DEF RandomTier
    <3>3. o = winner
      BY <3>2 DEF Follow
    <3> HIDE DEF F
    <3>4. o = None => TotalWeight(F) # Unit \/ \E x \in F : Weight[x] < 0
      <4>1. SUFFICES ASSUME o = None, TotalWeight(F) = Unit, \A x \in F : ~(Weight[x] < 0) PROVE FALSE
        OBVIOUS
      <4>2. \A x \in F : Weight[x] >= 0
        BY <1>2, <4>1, StateMachineConstants
      <4>3. Drawn(n) = {x \in F : Weight[x] > 0}
        BY <1>2, <4>1, <4>2 DEF Drawn
      <4> QED BY <1>4, <3>3, <4>1, <4>3
    <3> QED BY <1>5, <2>1, <2>2, <3>1, <3>4 DEF F, Precedence
  <2> QED BY <1>7, <2>4, <2>5, <2>6
<1> QED BY <1>6, <1>7 DEF CrossBoundary

(* Every boundary obeys the precedence of the tiers and of arbitration.    *)
THEOREM TiersAreObeyed == Spec => BoundaryPrecedence
<1>1. IInv /\ [Next]_vars => [\A n \in Nodes : active = n /\ CrossBoundary => Precedence(n)]_vars
  BY BoundaryObeysTiers
<1> QED BY <1>1, IInvHolds, PTL DEF Spec, BoundaryPrecedence

(* A boundary that event intent decides takes the front of the winner's     *)
(* queue, which holds something, and leaves every other queue alone.        *)
LEMMA OneIsTaken ==
  ASSUME IInv, EventTier(active), active # None
  PROVE  TakesOne
<1>1. active \in Nodes
  BY DEF IInv, TypeOK, PlaybackTyped
<1> DEFINE w == SelectWinner(Candidates(active), Arrival(active))
<1>2. /\ queues[<<active, event[w]>>] # <<>>
      /\ queues' = [queues EXCEPT ![<<active, event[w]>>] = Tail(@)]
      /\ result' = [winner |-> w, tier |-> "event_intent"]
  BY <1>1, EventTierFacts
<1> HIDE DEF w
<1> QED BY <1>1, <1>2 DEF TakesOne

(* A boundary of another tier names that tier and leaves the queues alone.  *)
LEMMA OthersTakeNone ==
  ASSUME NEW n, StopTier(n) \/ ManualTier(n) \/ RandomTier(n)
  PROVE  queues' = queues /\ result'.tier # "event_intent"
<1>1. CASE StopTier(n)
  BY <1>1 DEF StopTier, Follow
<1>2. CASE ManualTier(n)
  BY <1>2 DEF ManualTier, Follow
<1>3. CASE RandomTier(n)
  <2>1. PICK winner \in Drawn(n) :
               Follow(winner, IF winner = None THEN "stop" ELSE "weighted_random")
    BY <1>3 DEF RandomTier
  <2>2. result'.tier \in {"stop", "weighted_random"}
    BY <2>1 DEF Follow
  <2> QED BY <1>3, <2>2 DEF RandomTier
<1> QED BY <1>1, <1>2, <1>3

(* A boundary that event intent decides takes one occurrence, the front of  *)
(* the winning queue (EventQueue::consume), so that an occurrence buys one  *)
(* boundary; any other boundary and every jump take none.                   *)
THEOREM OneTakenPerDecision == Spec => OneOccurrencePerDecision
<1>1. ASSUME IInv, CrossBoundary, result'.tier = "event_intent" \/ queues' # queues
      PROVE  TakesOne
  <2>1. active # None /\ EventTier(active)
    BY <1>1, OthersTakeNone DEF CrossBoundary
  <2> QED BY <1>1, <2>1, OneIsTaken
<1>2. ASSUME NEW fired \in SUBSET Events, ResolveVertical(fired)
      PROVE  queues' = queues
  BY <1>2 DEF ResolveVertical
<1>3. IInv /\ [Next]_vars =>
        [/\ CrossBoundary /\ result'.tier = "event_intent" => TakesOne
         /\ Decision /\ queues' # queues => TakesOne]_vars
  BY <1>1, <1>2 DEF Decision
<1> QED BY <1>3, IInvHolds, PTL DEF Spec, OneOccurrencePerDecision

(* Only resolve_vertical_transition() records a jump. *)
LEMMA JumpIsResolve ==
  ASSUME IInv, [Next]_vars, result'.tier = "vertical", jumps' # jumps
  PROVE  \E fired \in SUBSET Events : ResolveVertical(fired)
<1>1. ASSUME EditNext PROVE FALSE
  BY <1>1 DEF EditNext, Edit
<1>2. ASSUME NEW n \in Nodes \union {None}, ClearAll(n) PROVE FALSE
  BY <1>2 DEF ClearAll, NoResult
<1>3. ~UNCHANGED vars
  BY DEF vars, history
<1>4. TransportNext
  BY <1>1, <1>3 DEF Next
<1> QED BY <1>2, <1>4 DEF TransportNext, RecordSequentialOccurrence, CrossBoundary, QueueManualTransition,
      Tick, ClearNode, history

(* Each jump, from a state of the invariant, takes the first of the best.  *)
LEMMA JumpIsFirstBest ==
  ASSUME IInv, [Next]_vars, NEW n \in Nodes, active = n, result'.tier = "vertical", jumps' # jumps
  PROVE  FirstBest(n)
<1>1. PICK fired \in SUBSET Events : ResolveVertical(fired)
  BY JumpIsResolve
<1> DEFINE c == VerticalCandidates(n, fired)
           w == SelectWinner(c, [o \in Range(c) |-> 0])
<1>2. c # <<>> /\ Follow(w, "vertical")
  BY <1>1 DEF ResolveVertical
<1>3. /\ w \in Range(c) /\ w \in Outputs
      /\ Range(c) = {o \in OutputsOf(n) : /\ type[o] = Vertical /\ dest[o] # None
                                          /\ event[o] \in fired /\ <<n, dest[o]>> \in Compatible}
      /\ \A x \in Range(c) \ {w} :
           \/ Priority[w] > Priority[x]
           \/ Priority[w] = Priority[x] /\ Position(n, w) < Position(n, x)
  BY <1>2, JumpWinner
<1> HIDE DEF c, w
<1>4. result'.winner = w /\ active' = dest[w]
  BY <1>2, <1>3, ConstantFacts DEF Follow
<1>5. ASSUME NEW x \in OutputsOf(n), x # w, type[x] = Vertical, event[x] = event[w], <<n, dest[x]>> \in Compatible
      PROVE  x \in Range(c)
  <2>1. dest[x] # None
    BY <1>5, ConstantFacts
  <2> QED BY <1>3, <1>5, <2>1
<1> QED BY <1>3, <1>4, <1>5 DEF FirstBest

(* A jump takes the earliest output of the best priority among those that  *)
(* may follow the event, wherever edits have left the graph.               *)
THEOREM JumpsTakeTheFirstBest == Spec => JumpWinnerIsFirstBest
<1>1. IInv /\ [Next]_vars =>
        [\A n \in Nodes : active = n /\ result'.tier = "vertical" /\ jumps' # jumps => FirstBest(n)]_vars
  BY JumpIsFirstBest
<1> QED BY <1>1, IInvHolds, PTL DEF Spec, JumpWinnerIsFirstBest

-----------------------------------------------------------------------------
(* What a queue holds *)

(* The queue q of listener l, against the arrivals f since it was emptied. *)
Room(l) == IF l.policy = Fifo THEN l.capacity ELSE 1

Matches(l, q, f) ==
  /\ Len(q) = IF Len(f) < Room(l) THEN Len(f) ELSE Room(l)
  /\ l.policy = FirstWins => \A i \in 1..Len(q) : q[i] = f[i]
  /\ l.policy # FirstWins => \A i \in 1..Len(q) : q[i] = f[Len(f) - Len(q) + i]

(* Occurrences arrive in the order of their ordinals. *)
Arrived(f, next) == f \in Seq(Nat) /\ Increasing(f) /\ \A i \in 1..Len(f) : f[i] < next

ArrivalsInv ==
  /\ fresh \in [Keys -> Seq(Nat) \union {None}]
  /\ \A k \in Keys :
       /\ fresh[k] # None => Arrived(fresh[k], nextOrdinal)
       /\ listeners[k] = None => fresh[k] = <<>>
       /\ listeners[k] # None /\ fresh[k] # None => Matches(listeners[k], queues[k], fresh[k])

(* An arrival: record() does to the queue what the policy asks for.        *)
LEMMA RecordMatches ==
  ASSUME NEW l \in Listeners, l.policy # Fifo \/ l.capacity # 0, NEW q \in Seq(Nat),
         NEW x \in Nat, NEW f, Arrived(f, x), Matches(l, q, f)
  PROVE  LET g == Append(f, x)
         IN  Arrived(g, x + 1) /\ Matches(l, Record(q, l.policy, x, l.capacity), g)
<1> DEFINE g == Append(f, x)
           n == Len(f)
           r == Record(q, l.policy, x, l.capacity)
<1>1. /\ f \in Seq(Nat) /\ n \in Nat /\ g \in Seq(Nat) /\ Len(g) = n + 1 /\ g[n + 1] = x
      /\ \A i \in 1..n : g[i] = f[i] /\ f[i] < x /\ f[i] \in Nat
      /\ \A i, j \in 1..n : i < j => f[i] < f[j]
  BY DEF Arrived, Increasing
<1>2. /\ l.policy \in QueuePolicies /\ l.capacity \in Nat /\ Room(l) \in Nat /\ Room(l) # 0
      /\ Len(q) \in Nat
  BY DEF Listeners, Room
<1> HIDE DEF g, n, r
<1>3. Arrived(g, x + 1)
  <2>1. ASSUME NEW i \in 1..(n + 1), NEW j \in 1..(n + 1), i < j PROVE g[i] < g[j]
    <3>1. i \in 1..n
      BY <1>1, <2>1
    <3>2. CASE j = n + 1
      BY <1>1, <3>1, <3>2
    <3>3. CASE j # n + 1
      <4>1. j \in 1..n
        BY <1>1, <3>3
      <4> QED BY <1>1, <2>1, <3>1, <4>1
    <3> QED BY <3>2, <3>3
  <2>2. ASSUME NEW i \in 1..(n + 1) PROVE g[i] < x + 1
    <3>1. CASE i = n + 1
      BY <1>1, <3>1
    <3>2. CASE i # n + 1
      <4>1. i \in 1..n
        BY <1>1, <3>2
      <4>2. g[i] = f[i] /\ f[i] < x /\ f[i] \in Nat
        BY <1>1, <4>1
      <4> QED BY <4>2
    <3> QED BY <3>1, <3>2
  <2> QED BY <1>1, <2>1, <2>2 DEF Arrived, Increasing
<1>4. CASE l.policy = FirstWins
  <2>1. Room(l) = 1
    BY <1>4 DEF Room, FirstWins, Fifo
  <2>2. r = IF q = <<>> THEN <<x>> ELSE q
    BY <1>4 DEF Record, FirstWins, LatestValidWins, Fifo, r
  <2>3. Len(r) = 1 /\ r[1] = g[1]
    <3>1. CASE q = <<>>
      <4>1. n = 0 /\ r = <<x>>
        BY <1>1, <2>1, <2>2, <3>1 DEF Matches, n
      <4> QED BY <1>1, <4>1
    <3>2. CASE q # <<>>
      <4>1. Len(q) # 0
        BY <3>2
      <4>2. Len(q) = 1 /\ q[1] = f[1] /\ 1 \in 1..n /\ r = q
        BY <1>1, <1>2, <1>4, <2>1, <2>2, <3>2, <4>1 DEF Matches, n
      <4> QED BY <1>1, <4>2
    <3> QED BY <3>1, <3>2
  <2>4. Matches(l, r, g)
    BY <1>1, <1>4, <2>1, <2>3 DEF Matches
  <2> QED BY <1>3, <2>4 DEF g, r
<1>5. CASE l.policy = LatestValidWins
  <2>1. Room(l) = 1 /\ l.policy # FirstWins
    BY <1>5 DEF Room, FirstWins, LatestValidWins, Fifo
  <2>2. r = <<x>>
    BY <1>5 DEF Record, FirstWins, LatestValidWins, Fifo, r
  <2>3. Len(r) = 1 /\ r[1] = x
    BY <2>2
  <2>4. Matches(l, r, g)
    BY <1>1, <2>1, <2>3 DEF Matches
  <2> QED BY <1>3, <2>4 DEF g, r
<1>6. CASE l.policy = Fifo
  <2>1. Room(l) = l.capacity /\ l.policy # FirstWins /\ l.capacity # 0
    BY <1>6 DEF Room, FirstWins, Fifo
  <2> DEFINE s == IF Len(q) >= l.capacity THEN Tail(q) ELSE q
  <2>2. r = Append(s, x)
    BY <1>6, <2>1 DEF Record, FirstWins, LatestValidWins, Fifo, r
  <2>3. /\ s \in Seq(Nat) /\ Len(s) \in Nat
        /\ Len(s) = IF n < Room(l) THEN n ELSE Room(l) - 1
        /\ \A i \in 1..Len(s) : s[i] = f[n - Len(s) + i]
    <3>1. /\ Len(q) = IF n < Room(l) THEN n ELSE Room(l)
          /\ \A i \in 1..Len(q) : q[i] = f[n - Len(q) + i]
      BY <2>1 DEF Matches, n
    <3>2. CASE n < Room(l)
      <4>1. Len(q) = n /\ s = q
        BY <1>1, <1>2, <2>1, <3>1, <3>2
      <4> QED BY <1>1, <3>1, <3>2, <4>1
    <3>3. CASE ~(n < Room(l))
      <4>1. Len(q) = Room(l) /\ s = Tail(q) /\ q # <<>>
        BY <1>1, <1>2, <2>1, <3>1, <3>3
      <4>2. Tail(q) \in Seq(Nat) /\ Len(Tail(q)) = Len(q) - 1 /\ \A i \in 1..(Len(q) - 1) : Tail(q)[i] = q[i + 1]
        BY <4>1
      <4> HIDE DEF s
      <4>3. Len(s) = Room(l) - 1 /\ s \in Seq(Nat)
        BY <4>1, <4>2
      <4>4. ASSUME NEW i \in 1..Len(s) PROVE s[i] = f[n - Len(s) + i]
        <5>1. i + 1 \in 1..Len(q) /\ n - Len(q) + (i + 1) = n - Len(s) + i
          <6>1. Len(s) = Len(q) - 1 /\ Len(q) \in Nat /\ n \in Nat
            BY <1>1, <1>2, <4>1, <4>3
          <6> QED BY <6>1
        <5>2. s[i] = q[i + 1]
          BY <1>2, <4>1, <4>2, <4>3
        <5> QED BY <3>1, <5>1, <5>2
      <4> QED BY <1>2, <3>3, <4>3, <4>4
    <3> QED BY <3>2, <3>3
  <2> HIDE DEF s
  <2>4. /\ Len(r) = Len(s) + 1 /\ r[Len(s) + 1] = x /\ \A i \in 1..Len(s) : r[i] = s[i]
    BY <2>2, <2>3
  <2>5. Len(r) = IF n + 1 < Room(l) THEN n + 1 ELSE Room(l)
    BY <1>1, <1>2, <2>3, <2>4
  <2>6. ASSUME NEW i \in 1..Len(r) PROVE r[i] = g[(n + 1) - Len(r) + i]
    <3>1. CASE i = Len(s) + 1
      <4>1. (n + 1) - Len(r) + i = n + 1
        <5>1. n \in Nat /\ Len(s) \in Nat /\ Len(r) = Len(s) + 1
          BY <1>1, <2>3, <2>4
        <5> QED BY <3>1, <5>1
      <4> QED BY <1>1, <2>4, <3>1, <4>1
    <3>2. CASE i # Len(s) + 1
      <4>1. i \in 1..Len(s) /\ (n + 1) - Len(r) + i = n - Len(s) + i
        <5>1. n \in Nat /\ Len(s) \in Nat /\ Len(r) = Len(s) + 1
          BY <1>1, <2>3, <2>4
        <5> QED BY <3>2, <5>1
      <4>2. n - Len(s) + i \in 1..n
        <5>1. n \in Nat /\ Len(s) \in Nat /\ Len(s) <= n
          BY <1>1, <1>2, <2>3
        <5> QED BY <4>1, <5>1
      <4> QED BY <1>1, <2>3, <2>4, <4>1, <4>2
    <3> QED BY <3>1, <3>2
  <2> HIDE DEF r
  <2>7. Matches(l, r, g)
    BY <1>1, <2>1, <2>5, <2>6 DEF Matches
  <2> QED BY <1>3, <2>7 DEF g, r
<1> QED BY <1>2, <1>4, <1>5, <1>6 DEF QueuePolicies

(* In an increasing sequence what exceeds the element at a is after it.    *)
LEMMA KeptAfter ==
  ASSUME NEW f \in Seq(Nat), Increasing(f), NEW a \in 1..Len(f)
  PROVE  Kept(f, {x \in Range(f) : x > f[a]}) = SubSeq(f, a + 1, Len(f))
<1> DEFINE S == {x \in Range(f) : x > f[a]}
           n == Len(f)
           before == SubSeq(f, 1, a)
           after == SubSeq(f, a + 1, n)
<1>1. /\ n \in Nat /\ a \in Nat /\ before \in Seq(Nat) /\ Len(before) = a
      /\ \A i \in 1..a : before[i] = f[i]
      /\ after \in Seq(Nat) /\ Len(after) = n - a /\ \A i \in 1..(n - a) : after[i] = f[a + i]
  <2>1. n \in Nat /\ a \in Nat /\ a \in 1..n
    OBVIOUS
  <2>2. before \in Seq(Nat) /\ Len(before) = a /\ \A i \in 1..a : before[i] = f[i]
    BY <2>1, SubSeqProperties
  <2>3. after \in Seq(Nat) /\ Len(after) = n - a /\ \A i \in 1..(n - a) : after[i] = f[a + i]
    BY <2>1
  <2> QED BY <2>1, <2>2, <2>3
<1>2. f = before \o after
  OBVIOUS
<1>3. Kept(before, S) = <<>>
  <2>1. ASSUME NEW y \in Range(before), y \in S PROVE FALSE
    <3>1. PICK i \in 1..a : y = f[i]
      BY <1>1 DEF Range
    <3>2. f[i] <= f[a] /\ f[i] \in Nat /\ f[a] \in Nat
      <4>1. i = a \/ i < a
        BY <3>1
      <4> QED BY <4>1, SMTT(40) DEF Increasing
    <3> QED BY <2>1, <3>1, <3>2
  <2> HIDE DEF S, before
  <2>2. Range(Kept(before, S)) = {} /\ Kept(before, S) \in Seq(Nat)
    BY <1>1, <2>1, KeptMembers, KeptType
  <2> QED BY <2>2, EmptyRange
<1>4. Kept(after, S) = after
  <2>1. ASSUME NEW i \in 1..Len(after) PROVE after[i] \in S
    <3>1. a + i \in 1..n /\ after[i] = f[a + i] /\ a < a + i
      BY <1>1
    <3>2. f[a + i] > f[a] /\ f[a + i] \in Range(f)
      BY <3>1, SMTT(40) DEF Increasing, Range
    <3> QED BY <3>1, <3>2
  <2> HIDE DEF S, after
  <2> QED BY <1>1, <2>1, KeptAll
<1> HIDE DEF S, before, after
<1>5. Kept(before \o after, S) = Kept(before, S) \o Kept(after, S)
  BY <1>1, KeptConcat
<1>6. <<>> \o after = after
  BY <1>1, ConcatEmptySeq
<1> QED BY <1>2, <1>3, <1>4, <1>5, <1>6 DEF S, after

(* A boundary that takes the front leaves what the policy made of the rest.*)
LEMMA RemainingMatches ==
  ASSUME NEW l \in Listeners, NEW q \in Seq(Nat), q # <<>>, NEW next \in Nat,
         NEW f, Arrived(f, next), Matches(l, q, f)
  PROVE  Remaining(f, q) # None => Arrived(Remaining(f, q), next) /\ Matches(l, Tail(q), Remaining(f, q))
<1> DEFINE n == Len(f)
           m == Len(q)
           g == Remaining(f, q)
<1>1. /\ f \in Seq(Nat) /\ n \in Nat /\ m \in Nat /\ m # 0 /\ Increasing(f)
      /\ \A i \in 1..n : f[i] < next /\ f[i] \in Nat
  BY DEF Arrived
<1>2. Tail(q) \in Seq(Nat) /\ Len(Tail(q)) = m - 1 /\ \A i \in 1..(m - 1) : Tail(q)[i] = q[i + 1]
  OBVIOUS
<1>3. Room(l) \in Nat /\ l.policy \in QueuePolicies /\ m = IF n < Room(l) THEN n ELSE Room(l)
  BY DEF Room, Listeners, Matches
<1> HIDE DEF m, n
<1>7. Tail(q) = <<>> <=> m = 1
  <2> DEFINE t == Tail(q)
  <2>1. t \in Seq(Nat) /\ Len(t) = m - 1
    BY <1>2
  <2> HIDE DEF t
  <2>2. t = <<>> <=> Len(t) = 0
    BY <2>1, EmptySeq
  <2>3. t = <<>> <=> m = 1
    BY <1>1, <2>1, <2>2
  <2> QED BY <2>3 DEF t
<1>4. m <= n /\ m <= Room(l)
  BY <1>1, <1>3
<1>5. CASE m = 1
  <2>1. Tail(q) = <<>> /\ g = <<>> /\ Len(Tail(q)) = 0
    <3>1. Len(Tail(q)) = 0 /\ Tail(q) = <<>>
      BY <1>2, <1>5, <1>7
    <3> QED BY <3>1 DEF Remaining
  <2>2. Arrived(<<>>, next)
    BY DEF Arrived, Increasing
  <2>3. Matches(l, <<>>, <<>>)
    BY <1>3, <1>4, <1>5 DEF Matches
  <2> QED BY <2>1, <2>2, <2>3
<1>6. CASE m # 1
  <2>1. Tail(q) # <<>> /\ l.policy # FirstWins
    <3>1. Room(l) # 1 /\ m - 1 # 0
      BY <1>1, <1>3, <1>4, <1>6
    <3>2. l.policy = Fifo
      BY <3>1 DEF Room
    <3> QED BY <1>6, <1>7, <3>2 DEF Fifo, FirstWins
  <2> DEFINE a == n - m + 1
  <2>2. /\ a \in 1..n /\ a \in Nat /\ n - a = m - 1
    BY <1>1, <1>4
  <2>3. \A i \in 1..m : q[i] = f[n - m + i]
    BY <2>1 DEF Matches, m, n
  <2>4. Peek(q) = f[a]
    <3>1. Peek(q) = q[1] /\ 1 \in 1..m
      BY <1>1 DEF Peek
    <3> QED BY <2>3, <3>1
  <2> HIDE DEF a
  <2> SUFFICES ASSUME f # None PROVE Arrived(g, next) /\ Matches(l, Tail(q), g)
    <3>1. f = None => g = None
      BY <2>1 DEF Remaining
    <3> QED BY <3>1
  <2>5. g = SubSeq(f, a + 1, n)
    <3>1. g = Kept(f, {x \in Range(f) : x > f[a]})
      BY <2>1, <2>4 DEF Remaining
    <3> HIDE DEF g
    <3>2. a \in 1..Len(f)
      BY <2>2 DEF n
    <3> QED BY <1>1, <3>1, <3>2, KeptAfter DEF n
  <2>6. /\ g \in Seq(Nat) /\ Len(g) = m - 1 /\ \A i \in 1..(m - 1) : g[i] = f[a + i] /\ a + i \in 1..n
    <3>1. SubSeq(f, a + 1, n) \in Seq(Nat) /\ Len(SubSeq(f, a + 1, n)) = n - a
          /\ \A i \in 1..(n - a) : SubSeq(f, a + 1, n)[i] = f[a + i] /\ a + i \in 1..n
      BY <1>1, <2>2
    <3> QED BY <2>2, <2>5, <3>1
  <2> HIDE DEF g
  <2>7. Arrived(g, next)
    <3>1. ASSUME NEW i \in 1..(m - 1), NEW j \in 1..(m - 1), i < j PROVE g[i] < g[j]
      <4>1. a + i < a + j
        BY <2>2, <3>1
      <4> QED BY <1>1, <2>6, <4>1 DEF Increasing, n
    <3>2. \A i \in 1..(m - 1) : g[i] < next
      BY <1>1, <2>6
    <3> QED BY <2>6, <3>1, <3>2 DEF Arrived, Increasing
  <2>8. ASSUME NEW i \in 1..(m - 1) PROVE Tail(q)[i] = g[i]
    <3>1. i + 1 \in 1..m /\ n - m + (i + 1) = a + i
      BY <1>1 DEF a
    <3>2. q[i + 1] = f[a + i]
      BY <2>3, <3>1
    <3> QED BY <1>2, <2>6, <3>2
  <2>9. Matches(l, Tail(q), g)
    <3>1. m - 1 < Room(l)
      BY <1>1, <1>3, <1>4
    <3>2. \A i \in 1..(m - 1) : (m - 1) - (m - 1) + i = i
      BY <1>1
    <3> QED BY <1>2, <2>1, <2>6, <2>8, <3>1, <3>2 DEF Matches
  <2> QED BY <2>7, <2>9
<1> QED BY <1>5, <1>6

(* A queue that was just emptied is what no arrivals make of it.           *)
LEMMA NothingMatches ==
  ASSUME NEW l \in Listeners, NEW next \in Nat
  PROVE  Arrived(<<>>, next) /\ Matches(l, <<>>, <<>>)
<1>1. Room(l) \in Nat /\ Len(<<>>) = 0 /\ <<>> \in Seq(Nat)
  BY DEF Room, Listeners
<1> QED BY <1>1 DEF Arrived, Matches, Increasing

(* And one that matches no arrivals is empty.                              *)
LEMMA EmptyMatchesNothing ==
  ASSUME NEW l \in Listeners, l.policy # Fifo \/ l.capacity # 0, NEW f, NEW next, Arrived(f, next), Matches(l, <<>>, f)
  PROVE  f = <<>>
<1>1. Room(l) \in Nat /\ Room(l) # 0 /\ Len(<<>>) = 0 /\ f \in Seq(Nat)
  BY DEF Room, Listeners, Arrived
<1>2. Len(f) \in Nat /\ 0 = IF Len(f) < Room(l) THEN Len(f) ELSE Room(l)
  BY <1>1 DEF Matches
<1>3. Len(f) = 0
  BY <1>1, <1>2
<1> QED BY <1>1, <1>3, EmptySeq

(* Nothing has arrived and nothing waits.                                  *)
LEMMA InitArrivals == Init => ArrivalsInv
<1> SUFFICES ASSUME Init PROVE ArrivalsInv
  OBVIOUS
<1>1. IInv
  BY InitIInv
<1>2. NodesTyped /\ nextOrdinal \in Nat
  BY <1>1 DEF IInv, TypeOK, PlaybackTyped
<1>3. \A k \in Keys : fresh[k] = <<>> /\ queues[k] = <<>>
  BY DEF Init
<1>4. fresh \in [Keys -> Seq(Nat) \union {None}]
  BY EmptySeq DEF Init
<1>5. ASSUME NEW k \in Keys
      PROVE  /\ fresh[k] # None => Arrived(fresh[k], nextOrdinal)
             /\ listeners[k] = None => fresh[k] = <<>>
             /\ listeners[k] # None /\ fresh[k] # None => Matches(listeners[k], queues[k], fresh[k])
  <2>1. Arrived(<<>>, nextOrdinal)
    BY EmptySeq DEF Arrived, Increasing
  <2>2. listeners[k] # None => listeners[k] \in Listeners
    BY <1>2 DEF NodesTyped
  <2> QED BY <1>2, <1>3, <2>1, <2>2, NothingMatches
<1> QED BY <1>4, <1>5 DEF ArrivalsInv

(* The steps that leave listeners, queues and arrivals as they are.        *)
LEMMA ArrivalsStay ==
  ASSUME ArrivalsInv, UNCHANGED <<listeners, queues, fresh, nextOrdinal>>
  PROVE  ArrivalsInv'
BY DEF ArrivalsInv, Arrived, Matches, Room

(* The steps that empty some queues.                                       *)
LEMMA ArrivalsCleared ==
  ASSUME IInv, ArrivalsInv, NEW keys, queues' = Emptied(queues, keys), fresh' = Emptied(fresh, keys),
         UNCHANGED <<listeners, nextOrdinal>>
  PROVE  ArrivalsInv'
<1>1. NodesTyped /\ nextOrdinal \in Nat
  BY DEF IInv, TypeOK, PlaybackTyped
<1>2. \A k \in Keys : IF k \in keys THEN queues'[k] = <<>> /\ fresh'[k] = <<>>
                                    ELSE queues'[k] = queues[k] /\ fresh'[k] = fresh[k]
  BY DEF Emptied
<1>3. fresh' \in [Keys -> Seq(Nat) \union {None}]
  BY EmptySeq DEF Emptied, ArrivalsInv
<1>4. ASSUME NEW k \in Keys
      PROVE  /\ fresh'[k] # None => Arrived(fresh'[k], nextOrdinal')
             /\ listeners'[k] = None => fresh'[k] = <<>>
             /\ listeners'[k] # None /\ fresh'[k] # None => Matches(listeners'[k], queues'[k], fresh'[k])
  <2>1. CASE k \in keys
    <3>1. Arrived(<<>>, nextOrdinal)
      BY EmptySeq DEF Arrived, Increasing
    <3>2. listeners[k] # None => listeners[k] \in Listeners
      BY <1>1 DEF NodesTyped
    <3> QED BY <1>1, <1>2, <2>1, <3>1, <3>2, NothingMatches
  <2>2. CASE k \notin keys
    BY <1>2, <2>2 DEF ArrivalsInv
  <2> QED BY <2>1, <2>2
<1> QED BY <1>3, <1>4 DEF ArrivalsInv

(* Recording keeps each queue what its policy makes of the arrivals.       *)
LEMMA ArrivalsRecorded ==
  ASSUME IInv, ArrivalsInv, NEW n \in Nodes, NEW e \in Events, RecordSequentialOccurrence(n, e)
  PROVE  ArrivalsInv'
<1> DEFINE k0 == <<n, e>>
           l == listeners[k0]
           q == queues[k0]
           f == fresh[k0]
           x == nextOrdinal
           r == Record(q, l.policy, x, l.capacity)
<1>1. NodesTyped /\ PlaybackTyped /\ ListenersHaveRoom
  BY DEF IInv, TypeOK, GraphInv
<1>2. /\ k0 \in Keys /\ l \in Listeners /\ l # None /\ q \in Seq(Nat) /\ x \in Nat
      /\ l.policy # Fifo \/ l.capacity # 0
  BY <1>1 DEF NodesTyped, PlaybackTyped, Keys, RecordSequentialOccurrence, ListenersHaveRoom
<1>3. /\ queues' = [queues EXCEPT ![k0] = r] /\ x' = x + 1 /\ listeners' = listeners
      /\ fresh' = [fresh EXCEPT ![k0] = IF f = None THEN None ELSE Append(f, x)]
  BY DEF RecordSequentialOccurrence, nodeVars
<1>4. f # None => /\ Arrived(f, x) /\ Matches(l, q, f) /\ f \in Seq(Nat)
  BY <1>2 DEF ArrivalsInv, Arrived
<1>5. f # None => Arrived(Append(f, x), x + 1) /\ Matches(l, r, Append(f, x)) /\ Append(f, x) \in Seq(Nat)
  <2> HIDE DEF l, q, f, x
  <2> QED BY <1>2, <1>4, RecordMatches DEF r
<1> HIDE DEF r
<1>6. \A k \in Keys :
        /\ queues'[k] = IF k = k0 THEN r ELSE queues[k]
        /\ fresh'[k] = IF k = k0 THEN IF f = None THEN None ELSE Append(f, x) ELSE fresh[k]
  BY <1>1, <1>3 DEF PlaybackTyped, ArrivalsInv
<1>7. fresh' \in [Keys -> Seq(Nat) \union {None}]
  BY <1>3, <1>5 DEF ArrivalsInv
<1>8. ASSUME NEW k \in Keys
      PROVE  /\ fresh'[k] # None => Arrived(fresh'[k], nextOrdinal')
             /\ listeners'[k] = None => fresh'[k] = <<>>
             /\ listeners'[k] # None /\ fresh'[k] # None => Matches(listeners'[k], queues'[k], fresh'[k])
  <2>1. CASE k = k0
    BY <1>2, <1>3, <1>5, <1>6, <2>1
  <2>2. CASE k # k0
    <3>1. fresh[k] # None => Arrived(fresh[k], x + 1)
      <4>1. fresh[k] # None => Arrived(fresh[k], x)
        BY DEF ArrivalsInv
      <4> QED BY <1>2, <4>1 DEF Arrived
    <3> QED BY <1>3, <1>6, <2>2, <3>1 DEF ArrivalsInv
  <2> QED BY <2>1, <2>2
<1> QED BY <1>7, <1>8 DEF ArrivalsInv

(* So does taking the oldest occurrence.                                   *)
LEMMA ArrivalsTaken ==
  ASSUME IInv, ArrivalsInv, CrossBoundary
  PROVE  ArrivalsInv'
<1>1. NodesTyped /\ PlaybackTyped /\ active \in Nodes /\ listeners' = listeners /\ nextOrdinal' = nextOrdinal
  BY DEF IInv, TypeOK, CrossBoundary, nodeVars, PlaybackTyped
<1>2. CASE EventTier(active)
  <2> DEFINE w == SelectWinner(Candidates(active), Arrival(active))
             k0 == <<active, event[w]>>
             q == queues[k0]
             f == fresh[k0]
             l == listeners[k0]
  <2>1. /\ k0 \in Keys /\ q # <<>>
        /\ queues' = [queues EXCEPT ![k0] = Tail(@)]
        /\ fresh' = [fresh EXCEPT ![k0] = Remaining(@, queues[k0])]
    BY <1>1, <1>2, EventTierFacts
  <2> HIDE DEF w, k0
  <2>2. q \in Seq(Nat) /\ nextOrdinal \in Nat
    BY <1>1, <2>1 DEF PlaybackTyped
  <2>3. l # None /\ l \in Listeners
    <3>1. 1 \in DOMAIN q
      BY <2>1, <2>2
    <3>2. listeners[k0] # None
      BY <2>1, <3>1 DEF IInv, PendingIsCurrent
    <3> QED BY <1>1, <2>1, <3>2 DEF NodesTyped
  <2>4. f # None => Arrived(f, nextOrdinal) /\ Matches(l, q, f)
    BY <2>1, <2>3 DEF ArrivalsInv
  <2>5. Remaining(f, q) # None => Arrived(Remaining(f, q), nextOrdinal) /\ Matches(l, Tail(q), Remaining(f, q))
    <3>1. CASE f = None
      <4>1. CASE Tail(q) = <<>>
        <5>1. Remaining(f, q) = <<>>
          BY <4>1 DEF Remaining
        <5> HIDE DEF q, f, l
        <5> QED BY <2>2, <2>3, <4>1, <5>1, NothingMatches
      <4>2. CASE Tail(q) # <<>>
        BY <3>1, <4>2 DEF Remaining
      <4> QED BY <4>1, <4>2
    <3>2. CASE f # None
      <4>1. Arrived(f, nextOrdinal) /\ Matches(l, q, f)
        BY <2>4, <3>2
      <4> HIDE DEF q, f, l
      <4> QED BY <2>1, <2>2, <2>3, <4>1, RemainingMatches
    <3> QED BY <3>1, <3>2
  <2>6. \A k \in Keys :
          /\ queues'[k] = IF k = k0 THEN Tail(q) ELSE queues[k]
          /\ fresh'[k] = IF k = k0 THEN Remaining(f, q) ELSE fresh[k]
    BY <1>1, <2>1 DEF PlaybackTyped, ArrivalsInv
  <2>7. Remaining(f, q) \in Seq(Nat) \union {None}
    BY <2>5 DEF Arrived
  <2>8. fresh' \in [Keys -> Seq(Nat) \union {None}]
    <3> DEFINE g == Remaining(f, q)
    <3>1. fresh' = [fresh EXCEPT ![k0] = g] /\ fresh \in [Keys -> Seq(Nat) \union {None}]
      BY <2>1 DEF ArrivalsInv
    <3> HIDE DEF g
    <3> QED BY <2>7, <3>1 DEF g
  <2>9. ASSUME NEW k \in Keys
        PROVE  /\ fresh'[k] # None => Arrived(fresh'[k], nextOrdinal')
               /\ listeners'[k] = None => fresh'[k] = <<>>
               /\ listeners'[k] # None /\ fresh'[k] # None => Matches(listeners'[k], queues'[k], fresh'[k])
    <3>1. CASE k = k0
      BY <1>1, <2>3, <2>5, <2>6, <3>1
    <3>2. CASE k # k0
      BY <1>1, <2>6, <3>2 DEF ArrivalsInv
    <3> QED BY <3>1, <3>2
  <2> QED BY <2>8, <2>9 DEF ArrivalsInv
<1>3. CASE StopTier(active) \/ ManualTier(active) \/ RandomTier(active)
  <2>1. UNCHANGED <<queues, fresh>>
    BY <1>3 DEF StopTier, ManualTier, RandomTier
  <2> QED BY <1>1, <2>1, ArrivalsStay
<1> QED BY <1>2, <1>3 DEF CrossBoundary

(* So does an edit of the node, whose lost listeners are cleared.          *)
LEMMA ArrivalsEdited ==
  ASSUME IInv, IInv', ArrivalsInv, EditNext
  PROVE  ArrivalsInv'
<1> DEFINE lost == {k \in Keys : listeners[k] # None /\ listeners'[k] = None}
           kept == {k \in Keys : listeners[k] # None /\ listeners'[k] # None}
           changed == {k \in kept : \/ listeners'[k].policy # listeners[k].policy
                                    \/ listeners'[k].capacity # listeners[k].capacity}
<1>1. /\ queues' = Emptied(queues, lost) /\ nextOrdinal' = nextOrdinal
      /\ fresh' = [k \in Keys |-> IF k \in lost THEN <<>>
                                  ELSE IF k \in changed /\ queues[k] # <<>> THEN None
                                  ELSE fresh[k]]
  BY DEF EditNext, Edit
<1>2. NodesTyped /\ NodesTyped' /\ PlaybackTyped /\ ListenersHaveRoom /\ PendingIsCurrent
  BY DEF IInv, TypeOK, GraphInv
<1>3. fresh' \in [Keys -> Seq(Nat) \union {None}]
  <2> HIDE DEF lost, changed
  <2> QED BY <1>1, EmptySeq DEF ArrivalsInv
<1>4. ASSUME NEW k \in Keys
      PROVE  /\ fresh'[k] # None => Arrived(fresh'[k], nextOrdinal')
             /\ listeners'[k] = None => fresh'[k] = <<>>
             /\ listeners'[k] # None /\ fresh'[k] # None => Matches(listeners'[k], queues'[k], fresh'[k])
  <2>1. /\ queues'[k] = IF k \in lost THEN <<>> ELSE queues[k]
        /\ fresh'[k] = IF k \in lost THEN <<>> ELSE IF k \in changed /\ queues[k] # <<>> THEN None ELSE fresh[k]
    <3> HIDE DEF lost, changed
    <3> QED BY <1>1 DEF Emptied
  <2>2. Arrived(<<>>, nextOrdinal)
    BY EmptySeq DEF Arrived, Increasing
  <2>3. /\ fresh[k] # None => Arrived(fresh[k], nextOrdinal)
        /\ listeners[k] = None => fresh[k] = <<>>
        /\ listeners[k] # None /\ fresh[k] # None => Matches(listeners[k], queues[k], fresh[k])
    BY DEF ArrivalsInv
  <2>4. /\ queues[k] \in Seq(Nat) /\ nextOrdinal \in Nat
        /\ listeners[k] # None => listeners[k] \in Listeners /\ (listeners[k].policy # Fifo \/ listeners[k].capacity # 0)
        /\ listeners'[k] # None => listeners'[k] \in Listeners
        /\ \A i \in DOMAIN queues[k] : listeners[k] # None
    BY <1>2 DEF NodesTyped, PlaybackTyped, ListenersHaveRoom, PendingIsCurrent
  <2>5. CASE k \in lost
    BY <1>1, <2>1, <2>2, <2>5
  <2>6. CASE listeners[k] = None
    <3>1. queues[k] = <<>>
      <4>1. queues[k] # <<>> => 1 \in DOMAIN queues[k]
        BY <2>4
      <4> QED BY <2>4, <2>6, <4>1
    <3>2. queues'[k] = <<>> /\ fresh'[k] = <<>>
      BY <2>1, <2>3, <2>6, <3>1
    <3>3. listeners'[k] # None => Matches(listeners'[k], <<>>, <<>>)
      BY <2>4, NothingMatches
    <3> QED BY <1>1, <2>2, <3>2, <3>3
  <2>7. CASE k \in changed /\ queues[k] # <<>>
    BY <2>1, <2>7
  <2>8. CASE k \in changed /\ queues[k] = <<>>
    <3>1. queues'[k] = <<>> /\ fresh'[k] = fresh[k] /\ listeners[k] # None /\ listeners'[k] # None
      BY <2>1, <2>8
    <3>2. fresh[k] # None => fresh[k] = <<>>
      BY <2>3, <2>4, <2>8, <3>1, EmptyMatchesNothing
    <3>3. Matches(listeners'[k], <<>>, <<>>)
      BY <2>4, <3>1, NothingMatches
    <3> QED BY <1>1, <2>2, <3>1, <3>2, <3>3
  <2>9. CASE k \in kept /\ k \notin changed
    <3>1. queues'[k] = queues[k] /\ fresh'[k] = fresh[k] /\ listeners[k] # None /\ listeners'[k] # None
          /\ listeners'[k].policy = listeners[k].policy /\ listeners'[k].capacity = listeners[k].capacity
      BY <2>1, <2>9
    <3>2. fresh[k] # None => Matches(listeners'[k], queues[k], fresh[k])
      BY <2>3, <3>1 DEF Matches, Room
    <3> QED BY <1>1, <2>3, <3>1, <3>2
  <2> QED BY <2>5, <2>6, <2>7, <2>8, <2>9
<1> QED BY <1>3, <1>4 DEF ArrivalsInv

(* So does every step.                                                     *)
LEMMA NextKeepsArrivals ==
  ASSUME IInv, IInv', ArrivalsInv, [Next]_vars
  PROVE  ArrivalsInv'
<1>1. CASE EditNext
  BY <1>1, ArrivalsEdited
<1>2. ASSUME NEW n \in Nodes, ClearNode(n) PROVE ArrivalsInv'
  BY <1>2, ArrivalsCleared DEF ClearNode, nodeVars
<1>3. ASSUME NEW n \in Nodes \union {None}, ClearAll(n) PROVE ArrivalsInv'
  BY <1>3, ArrivalsCleared DEF ClearAll, nodeVars
<1>4. ASSUME NEW o \in Outputs, QueueManualTransition(o) PROVE ArrivalsInv'
  BY <1>4, ArrivalsStay DEF QueueManualTransition, nodeVars, history
<1>5. ASSUME NEW fired \in SUBSET Events, ResolveVertical(fired) PROVE ArrivalsInv'
  BY <1>5, ArrivalsStay DEF ResolveVertical, nodeVars
<1>6. CASE Tick
  BY <1>6, ArrivalsStay DEF Tick, nodeVars, esmVars, history
<1>7. CASE UNCHANGED vars
  BY <1>7, ArrivalsStay DEF vars, nodeVars, esmVars, history
<1>8. CASE TransportNext
  BY <1>2, <1>3, <1>4, <1>5, <1>6, <1>8, ArrivalsRecorded, ArrivalsTaken DEF TransportNext
<1> QED BY <1>1, <1>7, <1>8 DEF Next

(* Every queue holds what its policy makes of the arrivals since it was    *)
(* last emptied, as long as the policy is not changed under pending ones:  *)
(* edits elsewhere, boundaries, jumps and clears cannot disturb it.        *)
THEOREM QueuesReflectArrivals == Spec => []QueueReflectsArrivals
<1>1. Spec => []ArrivalsInv
  BY InitArrivals, NextKeepsArrivals, IInvHolds, PTL DEF Spec
<1>2. IInv /\ ArrivalsInv => QueueReflectsArrivals
  <2> SUFFICES ASSUME IInv, ArrivalsInv, NEW k \in Keys, listeners[k] # None, fresh[k] # None
      PROVE  LET q == queues[k]
                 f == fresh[k]
                 room == IF listeners[k].policy = Fifo THEN listeners[k].capacity ELSE 1
             IN  /\ Len(q) = IF Len(f) < room THEN Len(f) ELSE room
                 /\ IF listeners[k].policy = FirstWins THEN IsPrefix(q, f) ELSE IsSuffix(q, f)
    BY DEF QueueReflectsArrivals
  <2> DEFINE q == queues[k]
             f == fresh[k]
             l == listeners[k]
             n == Len(f)
             m == Len(q)
  <2>1. /\ q \in Seq(Nat) /\ f \in Seq(Nat) /\ Matches(l, q, f) /\ l \in Listeners
    BY DEF IInv, TypeOK, PlaybackTyped, NodesTyped, ArrivalsInv, Arrived
  <2>2. /\ m = IF n < Room(l) THEN n ELSE Room(l)
        /\ Room(l) \in Nat /\ n \in Nat /\ m \in Nat
    BY <2>1 DEF Matches, Room, Listeners
  <2>3. m <= n
    <3> HIDE DEF m, n
    <3> QED BY <2>2
  <2>4. /\ l.policy = FirstWins => \A i \in 1..m : q[i] = f[i]
        /\ l.policy # FirstWins => \A i \in 1..m : q[i] = f[n - m + i]
    BY <2>1 DEF Matches
  <2> HIDE DEF q, f, l
  <2>5. ASSUME l.policy = FirstWins PROVE IsPrefix(q, f)
    <3>1. SubSeq(q, 1, m) = SubSeq(f, 1, m)
      BY <2>1, <2>2, <2>3, <2>4, <2>5
    <3> QED BY <2>3, <3>1 DEF IsPrefix
  <2>6. ASSUME l.policy # FirstWins PROVE IsSuffix(q, f)
    <3> DEFINE rq == Reverse(q)
               rf == Reverse(f)
    <3>1. /\ rq \in Seq(Nat) /\ Len(rq) = m /\ \A i \in 1..m : rq[i] = q[m - i + 1]
          /\ rf \in Seq(Nat) /\ Len(rf) = n /\ \A i \in 1..n : rf[i] = f[n - i + 1]
      BY <2>1 DEF Reverse
    <3> HIDE DEF rq, rf
    <3>2. ASSUME NEW i \in 1..m PROVE rq[i] = rf[i]
      <4>1. m - i + 1 \in 1..m /\ n - m + (m - i + 1) = n - i + 1 /\ i \in 1..n
        <5> HIDE DEF m, n
        <5> QED BY <2>2, <2>3
      <4> QED BY <2>4, <2>6, <3>1, <4>1
    <3>3. SubSeq(rq, 1, m) = SubSeq(rf, 1, m)
      BY <2>2, <2>3, <3>1, <3>2
    <3>4. IsPrefix(rq, rf)
      BY <2>3, <3>1, <3>3 DEF IsPrefix
    <3> QED BY <3>4 DEF IsSuffix, rq, rf
  <2> QED BY <2>2, <2>5, <2>6 DEF q, f, l, Room
<1> QED BY <1>1, <1>2, IInvHolds, PTL
=============================================================================
