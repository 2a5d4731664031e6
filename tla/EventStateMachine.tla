-------------------------- MODULE EventStateMachine --------------------------
(***************************************************************************)
(* EventStateMachine (event_state_machine.hpp/.cpp) running over a graph   *)
(* that is being edited: persistent per-(node, event) queues, arbitration  *)
(* at a sequential boundary in three tiers (event intent, manual queue,    *)
(* weighted random), vertical jumps limited to one per transport instant.  *)
(*                                                                         *)
(* The playback engine that will call it is a stub in the repository.  Its *)
(* part here (the active node, the clock, clear_event on a lost listener)  *)
(* is external and keeps the obligations the header documents.             *)
(***************************************************************************)
EXTENDS NodeOutputs, SequencesExt, FiniteSetsExt, Integers

CONSTANTS
  Priority,      \* OutputConnector::priority_
  Weight,        \* OutputConnector::weight_, in parts of Unit
  Unit,          \* the parts that make Rational(1)
  Compatible,    \* <<source, destination>> with vertical_regions_compatible timelines
  Configs,       \* node configurations playback may start from
  MaxOrdinal,    \* bound: occurrences recorded in one behaviour
  MaxInstant     \* bound: last transport instant

Keys == Nodes \X Events
Listeners == [boundType : ConnectorTypes, policy : QueuePolicies, capacity : Nat]

ASSUME StateMachineConstants ==
  /\ Priority \in [Outputs -> Int] /\ Weight \in [Outputs -> Int]
  /\ Unit \in Nat \ {0} /\ MaxOrdinal \in Nat /\ MaxInstant \in Nat
  /\ Compatible \subseteq Nodes \X Nodes
  /\ Capacities \subseteq Nat
  /\ None \notin Nodes \union Events \union Outputs /\ None \notin Nat /\ None \notin Listeners

(* A node configuration that Node's operations can have left behind: every *)
(* output in one place, the bound ones listened to with their own type.    *)
ConfigIsSound(c) ==
  /\ c.outputs \in [Nodes -> Seq(Outputs)] /\ c.type \in [Outputs -> ConnectorTypes]
  /\ c.event \in [Outputs -> Events \union {None}] /\ c.dest \in [Outputs -> Nodes \union {None}]
  /\ c.listeners \in [Keys -> Listeners \union {None}]
  /\ \A n \in Nodes : IsInjective(c.outputs[n])
  /\ \A n, m \in Nodes : n # m => Range(c.outputs[n]) \intersect Range(c.outputs[m]) = {}
  /\ \A o \in Outputs : c.event[o] # None => \E n \in Nodes : o \in Range(c.outputs[n])
  /\ \A n \in Nodes, e \in Events :
       LET bound    == {o \in Range(c.outputs[n]) : c.event[o] = e}
           listener == c.listeners[<<n, e>>]
       IN  /\ listener = None <=> bound = {}
           /\ \A o \in bound : c.type[o] = listener.boundType
           /\ listener # None => listener.policy # Fifo \/ listener.capacity # 0

ASSUME ConfigsAreSound == \A c \in Configs : ConfigIsSound(c)

VARIABLES
  queues,      \* queues_, as the ordinals pending (never recorded = empty)
  dropped,     \* EventQueue::dropped_count_
  nextOrdinal, \* next_arrival_ordinal_
  manual,      \* manual_queue_
  lastJump,    \* last_vertical_jump_instant_
  active,      \* caller: the active node; None once playback has stopped
  now,         \* caller: the transport instant
  result,      \* history: what the last boundary or vertical resolution returned
  born,        \* history: nextOrdinal when the listener present now was created
  fresh,       \* history: occurrences recorded since the queue was last emptied;
               \* None once the policy has changed under pending ones
  jumps        \* history: instants at which a jump happened since clear_all()

esmVars == <<queues, dropped, nextOrdinal, manual, lastJump>>
history == <<result, born, fresh, jumps>>
vars    == <<nodeVars, esmVars, active, now, history>>

NoResult == [winner |-> None, tier |-> "none"]

Init ==
  /\ \E c \in Configs :
       /\ outputs = c.outputs /\ type = c.type /\ event = c.event
       /\ dest = c.dest /\ listeners = c.listeners
  /\ minted = UNION {Range(outputs[n]) : n \in Nodes}
  /\ queues = [k \in Keys |-> <<>>]
  /\ dropped = [k \in Keys |-> 0]
  /\ nextOrdinal = 0
  /\ manual = [n \in Nodes |-> None]
  /\ lastJump = None
  /\ active \in Nodes
  /\ now = 0
  /\ result = NoResult
  /\ born = [k \in Keys |-> 0]
  /\ fresh = [k \in Keys |-> <<>>]
  /\ jumps = <<>>

-----------------------------------------------------------------------------
(* Recording *)

RecordSequentialOccurrence(n, e) ==
  LET l == listeners[<<n, e>>]
      q == queues[<<n, e>>]
  IN /\ l # None
     /\ l.boundType = Sequential
     /\ nextOrdinal < MaxOrdinal
     /\ queues'  = [queues  EXCEPT ![<<n, e>>] = Record(q, l.policy, nextOrdinal, l.capacity)]
     /\ dropped' = [dropped EXCEPT ![<<n, e>>] = @ + Dropped(q, l.policy, l.capacity)]
     /\ fresh'   = [fresh   EXCEPT ![<<n, e>>] = IF @ = None THEN None ELSE Append(@, nextOrdinal)]
     /\ nextOrdinal' = nextOrdinal + 1
     /\ UNCHANGED <<nodeVars, manual, lastJump, active, now, result, born, jumps>>

-----------------------------------------------------------------------------
(* Arbitration *)

Followable(o) == type[o] = Sequential /\ dest[o] # None
Group(n) == Kept(outputs[n], {o \in OutputsOf(n) : Followable(o)})

HasIntent(n, o) == event[o] # None /\ queues[<<n, event[o]>>] # <<>>
Candidates(n) == Kept(Group(n), {o \in OutputsOf(n) : HasIntent(n, o)})

(* Mutant of Beats: recency is compared before priority. *)
Beats_RecencyFirst(o, best, arrival) ==
  \/ arrival[o] > arrival[best]
  \/ arrival[o] = arrival[best] /\ Priority[o] > Priority[best]

Beats(o, best, arrival) ==
  \/ Priority[o] > Priority[best]
  \/ Priority[o] = Priority[best] /\ arrival[o] > arrival[best]

(* select_winner(): one pass that keeps the best seen so far: priority,    *)
(* then recency of `arrival', then the earlier position in the vector.     *)
SelectWinner(candidates, arrival) ==
  LET best[i \in 1..Len(candidates)] ==
        IF i = 1 \/ Beats(candidates[i], best[i - 1], arrival)
        THEN candidates[i] ELSE best[i - 1]
  IN  best[Len(candidates)]

Arrival(n) == [o \in Range(Candidates(n)) |-> Peek(queues[<<n, event[o]>>])]

TotalWeight(group) == MapThenSumSet(LAMBDA o : Weight[o], group)

(* weight_group_roll_bound() and select_weighted_random(): nothing for a   *)
(* group that does not total Rational(1), else any output with a share.    *)
Drawn(n) ==
  LET group == Range(Group(n))
  IN  IF /\ \A o \in group : Weight[o] >= 0
         /\ TotalWeight(group) = Unit
      THEN {o \in group : Weight[o] > 0}
      ELSE {None}

(* The caller follows the winner to its destination, or stops. *)
Follow(winner, tier) ==
  /\ result' = [winner |-> winner, tier |-> tier]
  /\ active' = IF winner = None THEN None ELSE dest[winner]

-----------------------------------------------------------------------------
(* resolve_sequential_transition() on the active node, one action per tier *)

(* What is left of the arrivals f when the front of the queue q is taken: a *)
(* queue that becomes empty starts afresh.                                 *)
Remaining(f, q) ==
  IF Tail(q) = <<>> THEN <<>>
  ELSE IF f = None THEN None
  ELSE Kept(f, {x \in Range(f) : x > Peek(q)})

(* resolve_sequential_boundary() consumes from the winner's queue only. *)
EventTier(n) ==
  /\ Group(n) # <<>>
  /\ Candidates(n) # <<>>
  /\ LET winner == SelectWinner(Candidates(n), Arrival(n))
         k == <<n, event[winner]>>
     IN  /\ queues' = [queues EXCEPT ![k] = Consume(@)]
         /\ fresh' = [fresh EXCEPT ![k] = Remaining(@, queues[k])]
         /\ Follow(winner, "event_intent")
  /\ manual' = [manual EXCEPT ![n] = None]

StopTier(n) ==
  /\ Group(n) = <<>>
  /\ Follow(None, "stop")
  /\ manual' = [manual EXCEPT ![n] = None]
  /\ UNCHANGED <<queues, fresh>>

(* The queued connector may have been removed, retyped or disconnected. *)
ManualUsable(n) == manual[n] \in OutputsOf(n) /\ Followable(manual[n])

ManualTier(n) ==
  /\ Group(n) # <<>>
  /\ Candidates(n) = <<>>
  /\ ManualUsable(n)
  /\ Follow(manual[n], "manual_queue")
  /\ manual' = [manual EXCEPT ![n] = None]
  /\ UNCHANGED <<queues, fresh>>

RandomTier(n) ==
  /\ Group(n) # <<>>
  /\ Candidates(n) = <<>>
  /\ ~ManualUsable(n)
  /\ \E winner \in Drawn(n) :
       Follow(winner, IF winner = None THEN "stop" ELSE "weighted_random")
  /\ manual' = [manual EXCEPT ![n] = None]
  /\ UNCHANGED <<queues, fresh>>

CrossBoundary ==
  /\ active # None
  /\ EventTier(active) \/ StopTier(active) \/ ManualTier(active) \/ RandomTier(active)
  /\ UNCHANGED <<nodeVars, dropped, nextOrdinal, lastJump, now, born, jumps>>

QueueManualTransition(o) ==
  /\ active # None
  /\ o \in OutputsOf(active)
  /\ Followable(o)
  /\ manual' = [manual EXCEPT ![active] = o]
  /\ UNCHANGED <<nodeVars, queues, dropped, nextOrdinal, lastJump, active, now, history>>

-----------------------------------------------------------------------------
(* Vertical jumps *)

(* Mutant of VerticalCandidates: timelines are not compared. *)
VerticalCandidates_AnyTimeline(n, fired) ==
  Kept(outputs[n], {o \in OutputsOf(n) :
    /\ type[o] = Vertical
    /\ dest[o] # None
    /\ event[o] \in fired})

(* assemble_vertical_candidates() in the main region of n. *)
VerticalCandidates(n, fired) ==
  Kept(outputs[n], {o \in OutputsOf(n) :
    /\ type[o] = Vertical
    /\ dest[o] # None
    /\ event[o] \in fired
    /\ <<n, dest[o]>> \in Compatible})

(* Mutant of JumpAllowed: the guard lets the same instant through. *)
JumpAllowed_SameInstant == lastJump # None => now >= lastJump

JumpAllowed == lastJump # None => now > lastJump

(* Mutant of ResolveVertical: the jump empties the queues it leaves. *)
ResolveVertical_EmptiesQueues(fired) ==
  /\ active # None
  /\ VerticalCandidates(active, fired) # <<>>
  /\ JumpAllowed
  /\ LET c == VerticalCandidates(active, fired)
     IN  Follow(SelectWinner(c, [o \in Range(c) |-> 0]), "vertical")
  /\ lastJump' = now
  /\ jumps' = Append(jumps, now)
  /\ queues' = [k \in Keys |-> IF k[1] = active THEN <<>> ELSE queues[k]]
  /\ UNCHANGED <<nodeVars, dropped, nextOrdinal, manual, now, born, fresh>>

(* resolve_vertical_transition(): every candidate has arrival ordinal 0.   *)
ResolveVertical(fired) ==
  /\ active # None
  /\ VerticalCandidates(active, fired) # <<>>
  /\ JumpAllowed
  /\ LET c == VerticalCandidates(active, fired)
     IN  Follow(SelectWinner(c, [o \in Range(c) |-> 0]), "vertical")
  /\ lastJump' = now
  /\ jumps' = Append(jumps, now)
  /\ UNCHANGED <<nodeVars, queues, dropped, nextOrdinal, manual, now, born, fresh>>

Tick ==
  /\ now < MaxInstant
  /\ now' = now + 1
  /\ UNCHANGED <<nodeVars, esmVars, active, history>>

-----------------------------------------------------------------------------
(* Clearing *)

(* Mutant of Emptied: a cleared queue keeps what it held. *)
Emptied_KeepsAll(f, keys) == f

Emptied(f, keys) == [k \in Keys |-> IF k \in keys THEN <<>> ELSE f[k]]

ClearNode(n) ==
  /\ queues' = Emptied(queues, {n} \X Events)
  /\ fresh' = Emptied(fresh, {n} \X Events)
  /\ manual' = [manual EXCEPT ![n] = None]
  /\ UNCHANGED <<nodeVars, dropped, nextOrdinal, lastJump, active, now, result, born, jumps>>

(* clear_all() for stop (n = None), reset or node play. *)
ClearAll(n) ==
  /\ queues' = Emptied(queues, Keys)
  /\ fresh' = Emptied(fresh, Keys)
  /\ manual' = [m \in Nodes |-> None]
  /\ lastJump' = None
  /\ jumps' = <<>>
  /\ active' = n
  /\ result' = NoResult
  /\ UNCHANGED <<nodeVars, dropped, nextOrdinal, now, born>>

-----------------------------------------------------------------------------
(* Editing while the transport runs.  The caller calls clear_event() for a *)
(* listener the edit removed; `born' marks the listeners it created.       *)

Edit(op) ==
  /\ op
  /\ LET lost == {k \in Keys : listeners[k] # None /\ listeners'[k] = None}
         made == {k \in Keys : listeners[k] = None /\ listeners'[k] # None}
         kept == {k \in Keys : listeners[k] # None /\ listeners'[k] # None}
         changed == {k \in kept : \/ listeners'[k].policy # listeners[k].policy
                                  \/ listeners'[k].capacity # listeners[k].capacity}
     IN  /\ queues' = Emptied(queues, lost)
         /\ fresh' = [k \in Keys |-> IF k \in lost THEN <<>>
                                    ELSE IF k \in changed /\ queues[k] # <<>> THEN None
                                    ELSE fresh[k]]
         /\ born' = [k \in Keys |-> IF k \in made THEN nextOrdinal ELSE born[k]]
  /\ UNCHANGED <<dropped, nextOrdinal, manual, lastJump, active, now, result, jumps>>

EditNext ==
  \E n \in Nodes :
    \/ \E o \in Outputs, t \in ConnectorTypes : Edit(AddOutput(n, o, t))
    \/ \E o \in Outputs : Edit(RemoveOutput(n, o))
    \/ \E o \in Outputs, e \in Events \union {None} : Edit(BindOutputEvent(n, o, e))
    \/ \E o \in Outputs, t \in ConnectorTypes : Edit(SetOutputType(n, o, t))
    \/ \E e \in Events, p \in QueuePolicies, c \in Capacities : Edit(SetListenerPolicy(n, e, p, c))
    \/ \E o \in Outputs, d \in Nodes \union {None} : Edit(SetDestination(n, o, d))

TransportNext ==
  \/ \E n \in Nodes, e \in Events : RecordSequentialOccurrence(n, e)
  \/ CrossBoundary
  \/ \E o \in Outputs : QueueManualTransition(o)
  \/ \E fired \in SUBSET Events : ResolveVertical(fired)
  \/ Tick
  \/ \E n \in Nodes : ClearNode(n)
  \/ \E n \in Nodes \union {None} : ClearAll(n)

(* The graph may be edited between any two steps of the transport.         *)
Next == TransportNext \/ EditNext
Spec == Init /\ [][Next]_vars

-----------------------------------------------------------------------------
(* Properties *)

(* What is pending was recorded by the listener present now: unbinding an  *)
(* event and binding it again, removing an output, or changing its type    *)
(* brings no occurrence of an earlier listener back (the header's          *)
(* "Invariant: an EventListener removal must clear its queue").            *)
NoResurrection ==
  \A k \in Keys : queues[k] # <<>> =>
    /\ listeners[k] # None
    /\ \A i \in DOMAIN queues[k] : queues[k][i] >= born[k]

(* A node's listeners mirror its bindings, and what is queued under a key  *)
(* is the present listener's: listeners and queues change in two classes,  *)
(* one call after the other (cleanup_listener_if_unused, clear_event).     *)
ListenersAreSound == ListenersMirrorBindings /\ NoResurrection

(* While a policy stays what it is, the queue is what it makes of the      *)
(* arrivals since it was last emptied: the first, the latest, or the last  *)
(* `capacity' of them (EventQueue::record, consume), whatever else is      *)
(* edited and through every boundary, jump and clear.                      *)
QueueReflectsArrivals ==
  \A k \in Keys : listeners[k] # None /\ fresh[k] # None =>
    LET q == queues[k]
        f == fresh[k]
        room == IF listeners[k].policy = Fifo THEN listeners[k].capacity ELSE 1
    IN  /\ Len(q) = IF Len(f) < room THEN Len(f) ELSE room
        /\ IF listeners[k].policy = FirstWins THEN IsPrefix(q, f) ELSE IsSuffix(q, f)

(* Outputs of n that can be followed and have an occurrence waiting, as a  *)
(* reader of the graph would say it, with no reference to the code's loop. *)
Willing(n) ==
  {o \in OutputsOf(n) : /\ type[o] = Sequential /\ dest[o] # None
                        /\ event[o] # None /\ queues[<<n, event[o]>>] # <<>>}

Position(n, o) == CHOOSE i \in DOMAIN outputs[n] : outputs[n][i] = o

(* o is preferred to x: priority, then recency, then connector order.      *)
Preferred(n, o, x) ==
  LET age(y) == Head(queues[<<n, event[y]>>])
  IN  \/ Priority[o] > Priority[x]
      \/ /\ Priority[o] = Priority[x]
         /\ \/ age(o) > age(x)
            \/ age(o) = age(x) /\ Position(n, o) < Position(n, x)

(* A step in which the tiers are obeyed at n. *)
Precedence(n) ==
  LET o == result'.winner
      followable == {x \in OutputsOf(n) : type[x] = Sequential /\ dest[x] # None}
  IN  /\ manual'[n] = None
      /\ Willing(n) # {} =>
           /\ result'.tier = "event_intent"
           /\ o \in Willing(n)
           /\ \A x \in Willing(n) \ {o} : Preferred(n, o, x)
      /\ Willing(n) = {} /\ manual[n] \in followable =>
           result' = [winner |-> manual[n], tier |-> "manual_queue"]
      /\ o = None =>
           /\ Willing(n) = {} /\ manual[n] \notin followable
           /\ \/ TotalWeight(followable) # Unit
              \/ \E x \in followable : Weight[x] < 0
      /\ o # None => o \in followable /\ active' = dest[o]

(* A boundary obeys the precedence of the three tiers: pending event       *)
(* intent decides, and then for the output preferred to every other; else  *)
(* a manual choice that can still be followed; else an output with a share *)
(* of a valid group.  Playback stops only when no tier has anything, and   *)
(* whichever tier decides, the node's manual choice is spent.              *)
BoundaryPrecedence ==
  [][\A n \in Nodes : active = n /\ CrossBoundary => Precedence(n)]_vars

Decision == CrossBoundary \/ \E fired \in SUBSET Events : ResolveVertical(fired)

\* The front of the winner's queue is spent, and nothing else.
TakesOne ==
  /\ result'.tier = "event_intent"
  /\ \E n \in Nodes :
       LET k == <<n, event[result'.winner]>>
       IN  /\ n = active /\ queues[k] # <<>>
           /\ queues' = [queues EXCEPT ![k] = Tail(@)]

(* An occurrence is spent once and on what it bought: a boundary that event *)
(* intent decides takes one occurrence, the front of the winner's queue, so *)
(* that none buys two boundaries; a vertical jump and a boundary decided    *)
(* otherwise leave every pending occurrence where it is, at every node.     *)
OneOccurrencePerDecision ==
  [][/\ CrossBoundary /\ result'.tier = "event_intent" => TakesOne
     /\ Decision /\ queues' # queues => TakesOne]_vars

(* At most one vertical jump per transport instant since the transport was *)
(* last cleared, from whatever node: a same-sample event cannot chain      *)
(* through a cycle of vertical connectors.                                 *)
OneJumpPerInstant == \A i \in 2..Len(jumps) : jumps[i - 1] < jumps[i]

(* A step that jumps through the first best vertical output of n. *)
FirstBest(n) ==
  LET o == result'.winner
  IN  /\ o \in OutputsOf(n) /\ type[o] = Vertical
      /\ <<n, active'>> \in Compatible
      /\ \A x \in OutputsOf(n) \ {o} :
           type[x] = Vertical /\ event[x] = event[o] /\ <<n, dest[x]>> \in Compatible =>
             \/ Priority[o] > Priority[x]
             \/ Priority[o] = Priority[x] /\ Position(n, o) < Position(n, x)

(* A jump lands on a compatible node through a vertical output of the node *)
(* that was active, the earliest of the best priority that fired.          *)
JumpWinnerIsFirstBest ==
  [][\A n \in Nodes : active = n /\ result'.tier = "vertical" /\ jumps' # jumps => FirstBest(n)]_vars
=============================================================================
