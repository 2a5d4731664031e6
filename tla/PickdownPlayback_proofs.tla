----------------------- MODULE PickdownPlayback_proofs -----------------------
(* Theorems about PickdownPlayback, for every project whose timelines are   *)
(* what NodeTimeline accepts: any nodes, measures, pickdowns and edges.     *)
(*                                                                          *)
(* The argument.  A tail is at least as old as the active node's position:  *)
(* it started at or before the last sequential transition, where the        *)
(* position was 0, a jump leaves the position as it is (MapIsIdentity), and *)
(* time ages the tails and moves the position together (AgeCoversPosition). *)
(* At a node's boundary the position is the length of its main region,      *)
(* which its pickdown is shorter than, so no tail of the node is left.      *)
EXTENDS PickdownPlayback, FunctionTheorems, Subsequences

Length(n, i) == MeasureLength[Measures[n][i]]

(* What MeasureMap::create() leaves of a node, one measure at a time.       *)
LEMMA MeasureFacts ==
  ASSUME NEW n \in Nodes
  PROVE  /\ Last(n) \in Nat \ {0}
         /\ \A i \in 1..Last(n) : Starts[n][i] \in Nat /\ Length(n, i) \in Nat \ {0}
         /\ Starts[n][1] = 0
         /\ \A i \in 1..Last(n) : i # Last(n) => Starts[n][i + 1] = Starts[n][i] + Length(n, i)
         /\ Boundary(n) \in Nat
         /\ Boundary(n) = Starts[n][Last(n)] + Length(n, Last(n))
         /\ Pickdown[n] \in Nat /\ Pickdown[n] < Boundary(n)
<1>1. Last(n) \in Nat \ {0} /\ Measures[n] \in [1..Last(n) -> Signatures]
  BY Timelines DEF Last
<1>2. \A i \in 1..Last(n) : Starts[n][i] \in Nat
  BY Timelines DEF Last
<1>3. \A i \in 1..Last(n) : Length(n, i) \in Nat \ {0}
  BY <1>1, Timelines DEF Length
<1>4. \A i \in 1..Last(n) : i # Last(n) => Starts[n][i + 1] = Starts[n][i] + Length(n, i)
  <2> SUFFICES ASSUME NEW i \in 1..Last(n), i # Last(n)
               PROVE  Starts[n][i + 1] = Starts[n][i] + Length(n, i)
    OBVIOUS
  <2>1. i \in 1..Len(Measures[n]) - 1
    BY <1>1 DEF Last
  <2> QED BY <2>1, Timelines DEF Length
<1>5. Starts[n][1] = 0 /\ Pickdown[n] \in Nat /\ Pickdown[n] < Length(n, Last(n))
  BY Timelines DEF Last, Length
<1>6. Last(n) \in 1..Last(n) /\ Boundary(n) = Starts[n][Last(n)] + Length(n, Last(n))
  BY <1>1 DEF Boundary, Length
<1> QED
  BY <1>1, <1>2, <1>3, <1>4, <1>5, <1>6

(* measure_index_at() finds a measure for every position before the end:    *)
(* the first one that ends after it.                                        *)
LEMMA MeasureExists ==
  ASSUME NEW n \in Nodes, NEW p \in Nat, p < Boundary(n)
  PROVE  InMeasure(n, p, MeasureIndexAt(n, p))
<1> DEFINE T == {i \in 1..Last(n) : p < Starts[n][i] + Length(n, i)}
<1>1. T \subseteq Nat /\ Last(n) \in T
  BY MeasureFacts
<1>2. PICK i \in T : \A j \in T : i <= j
  <2> HIDE DEF T
  <2> QED BY <1>1, LeastNumber
<1>3. Starts[n][i] <= p
  <2>1. CASE i = 1
    BY <2>1, MeasureFacts
  <2>2. CASE i # 1
    <3>1. i - 1 \in 1..Last(n) /\ i - 1 \notin T /\ i - 1 # Last(n)
      BY <1>2, <2>2, MeasureFacts
    <3>2. Starts[n][(i - 1) + 1] = Starts[n][i - 1] + Length(n, i - 1)
      BY <3>1, MeasureFacts
    <3>3. Starts[n][i - 1] \in Nat /\ Length(n, i - 1) \in Nat
      BY <3>1, MeasureFacts
    <3>4. (i - 1) + 1 = i
      BY <1>2
    <3> QED BY <3>1, <3>2, <3>3, <3>4
  <2> QED BY <2>1, <2>2
<1>4. InMeasure(n, p, i) /\ i \in 1..Last(n)
  BY <1>2, <1>3 DEF InMeasure, Length
<1> QED
  BY <1>4 DEF MeasureIndexAt

(* Compatible nodes have their measures at the same positions.              *)
LEMMA SameStarts ==
  ASSUME NEW n \in Nodes, NEW m \in Nodes, RegionsCompatible(n, m)
  PROVE  /\ Last(n) = Last(m) /\ Boundary(n) = Boundary(m)
         /\ \A i \in 1..Last(n) : Starts[n][i] = Starts[m][i]
<1>1. Last(n) = Last(m) /\ \A i \in 1..Last(n) : Length(n, i) = Length(m, i)
  BY DEF RegionsCompatible, Last, Length
<1> DEFINE T == {i \in 1..Last(n) : Starts[n][i] # Starts[m][i]}
<1>2. T = {}
  <2> SUFFICES ASSUME T # {} PROVE FALSE
    OBVIOUS
  <2>1. PICK i \in T : \A j \in T : i <= j
    <3>1. T \subseteq Nat
      OBVIOUS
    <3> HIDE DEF T
    <3> QED BY <3>1, LeastNumber
  <2>2. i # 1
    BY <2>1, MeasureFacts
  <2>3. i - 1 \in 1..Last(n) /\ i - 1 \notin T /\ i - 1 # Last(n)
    BY <2>1, <2>2, MeasureFacts
  <2>4. /\ Starts[n][(i - 1) + 1] = Starts[n][i - 1] + Length(n, i - 1)
        /\ Starts[m][(i - 1) + 1] = Starts[m][i - 1] + Length(m, i - 1)
    BY <1>1, <2>3, MeasureFacts
  <2>5. (i - 1) + 1 = i
    BY <2>1
  <2> QED BY <1>1, <2>1, <2>3, <2>4, <2>5
<1>3. Boundary(n) = Boundary(m)
  <2>1. Last(n) \in 1..Last(n)
    BY MeasureFacts
  <2> QED BY <1>1, <1>2, <2>1, MeasureFacts
<1> QED
  BY <1>1, <1>2, <1>3

(* map_vertical_position() between compatible nodes is the identity.        *)
THEOREM MapIsIdentity ==
  ASSUME NEW n \in Nodes, NEW m \in Nodes, RegionsCompatible(n, m),
         NEW p \in Nat, p < Boundary(n)
  PROVE  MapVerticalPosition(n, m, p) = p
<1> DEFINE i == MeasureIndexAt(n, p)
<1>1. i \in 1..Last(n)
  BY MeasureExists DEF InMeasure
<1>2. Starts[m][i] = Starts[n][i] /\ Starts[n][i] \in Nat
  BY <1>1, SameStarts, MeasureFacts
<1> HIDE DEF i
<1>3. MapVerticalPosition(n, m, p) = Starts[m][i] + (p - Starts[n][i])
  BY DEF MapVerticalPosition, i
<1> QED
  BY <1>2, <1>3

-----------------------------------------------------------------------------

(* A tail has sounded for at least as long as the active node has played.   *)
AgeCoversPosition ==
  active # None => \A t \in tails : Pickdown[t.node] - t.left >= position

IInv == TypeOK /\ OneTailPerNode /\ AgeCoversPosition

(* A node entered at its start, with no tail, satisfies the invariant.     *)
LEMMA InitIInv == Init => IInv
<1> SUFFICES ASSUME Init PROVE IInv
  OBVIOUS
<1>1. active \in Nodes /\ position = 0 /\ Boundary(active) \in Nat
  BY MeasureFacts DEF Init
<1>2. jumped \in BOOLEAN
  BY DEF Init
<1>3. position <= Boundary(active) /\ crossings \in Nat /\ tails = {}
  BY <1>1 DEF Init
<1>4. TypeOK
  BY <1>1, <1>2, <1>3 DEF TypeOK
<1> QED
  BY <1>3, <1>4 DEF IInv, OneTailPerNode, AgeCoversPosition

(* A vertical jump: the position stays, and stays before the boundary.      *)
LEMMA JumpPreserves == IInv /\ Jump => IInv'
<1> SUFFICES ASSUME IInv, NEW d \in Nodes,
                    active # None, RegionsCompatible(active, d),
                    position < Boundary(active),
                    active' = d, jumped' = TRUE,
                    position' = MapVerticalPosition(active, d, position),
                    UNCHANGED <<tails, crossings>>
             PROVE  IInv'
  BY DEF Jump
<1>1. active \in Nodes /\ position \in Nat
  BY DEF IInv, TypeOK
<1>2. position' = position /\ Boundary(d) = Boundary(active)
  BY <1>1, MapIsIdentity, SameStarts
<1>3. Boundary(active) \in Nat
  BY <1>1, MeasureFacts
<1>4. TypeOK'
  BY <1>1, <1>2, <1>3 DEF IInv, TypeOK
<1>5. OneTailPerNode' /\ AgeCoversPosition'
  BY <1>2 DEF IInv, OneTailPerNode, AgeCoversPosition
<1> QED
  BY <1>4, <1>5 DEF IInv

(* A unit of time.                                                          *)
LEMMA AdvancePreserves == IInv /\ Advance => IInv'
<1> SUFFICES ASSUME IInv, Advance PROVE IInv'
  OBVIOUS
<1>1. /\ active' = active /\ crossings' = crossings /\ jumped' = FALSE
      /\ tails' = Sounded
  BY DEF Advance
<1>2. /\ active # None => position < Boundary(active) /\ position' = position + 1
      /\ active = None => position' = position
  BY DEF Advance
<1>3. \A v \in tails' : \E t \in tails :
        /\ v = [t EXCEPT !.left = @ - 1] /\ t.left > 1
        /\ v \in Tails /\ v.node = t.node /\ v.number = t.number
        /\ v.left = t.left - 1 /\ v.left \in 1..Pickdown[v.node]
  <2> SUFFICES ASSUME NEW v \in tails'
               PROVE  \E t \in tails :
                        /\ v = [t EXCEPT !.left = @ - 1] /\ t.left > 1
                        /\ v \in Tails /\ v.node = t.node /\ v.number = t.number
                        /\ v.left = t.left - 1 /\ v.left \in 1..Pickdown[v.node]
    OBVIOUS
  <2>1. PICK t \in tails : v = [t EXCEPT !.left = @ - 1] /\ t.left > 1
    BY <1>1 DEF Sounded
  <2>2. t \in Tails /\ t.left \in 1..Pickdown[t.node] /\ Pickdown[t.node] \in Nat
    BY Timelines DEF IInv, TypeOK, Tails
  <2>3. v = [node |-> t.node, number |-> t.number, left |-> t.left - 1]
    BY <2>1, <2>2 DEF Tails
  <2>4. v \in Tails /\ v.left \in 1..Pickdown[v.node]
    BY <2>1, <2>2, <2>3 DEF Tails
  <2> QED BY <2>1, <2>3, <2>4
<1>4. TypeOK'
  <2>1. active # None => Boundary(active) \in Nat
    BY MeasureFacts DEF IInv, TypeOK
  <2>2. position' \in Nat /\ (active' # None => position' <= Boundary(active'))
    BY <1>1, <1>2, <2>1 DEF IInv, TypeOK
  <2>3. \A t \in tails' : t \in Tails /\ t.left \in 1..Pickdown[t.node] /\ t.number <= crossings'
    BY <1>1, <1>3 DEF IInv, TypeOK
  <2> QED BY <1>1, <2>2, <2>3 DEF IInv, TypeOK
<1>5. OneTailPerNode'
  <2> SUFFICES ASSUME NEW v \in tails', NEW w \in tails', v.node = w.node
               PROVE  v = w
    BY DEF OneTailPerNode
  <2>1. PICK t \in tails : v = [t EXCEPT !.left = @ - 1] /\ v.node = t.node
    BY <1>3
  <2>2. PICK u \in tails : w = [u EXCEPT !.left = @ - 1] /\ w.node = u.node
    BY <1>3
  <2>3. t = u
    BY <2>1, <2>2 DEF IInv, OneTailPerNode
  <2> QED BY <2>1, <2>2, <2>3
<1>6. AgeCoversPosition'
  <2> SUFFICES ASSUME active # None, NEW v \in tails'
               PROVE  Pickdown[v.node] - v.left >= position'
    BY <1>1 DEF AgeCoversPosition
  <2>1. PICK t \in tails : v.node = t.node /\ v.left = t.left - 1
    BY <1>3
  <2>2. t.left \in Nat /\ Pickdown[t.node] \in Nat /\ position \in Nat
    BY Timelines DEF IInv, TypeOK, Tails
  <2>3. Pickdown[t.node] - t.left >= position
    BY DEF IInv, AgeCoversPosition
  <2> QED BY <1>2, <2>1, <2>2, <2>3
<1> QED
  BY <1>4, <1>5, <1>6 DEF IInv

(* Crossing a boundary: the node that is left has no tail, for one would be *)
(* as old as the node's main region is long.                                *)
LEMMA CrossBoundaryPreserves == IInv /\ CrossBoundary => IInv'
<1> SUFFICES ASSUME IInv, CrossBoundary PROVE IInv'
  OBVIOUS
<1>1. /\ active \in Nodes /\ position = Boundary(active)
      /\ active' \in Nodes \union {None} /\ position' = 0 /\ jumped' = jumped
      /\ crossings' = crossings + 1 /\ crossings \in Nat
      /\ tails' = tails \union TailOf(active)
  BY DEF CrossBoundary, IInv, TypeOK
<1>2. Pickdown[active] \in Nat /\ Pickdown[active] < Boundary(active) /\ Boundary(active) \in Nat
  BY <1>1, MeasureFacts
<1>3. active # None
  BY <1>1, Timelines
<1>4. \A t \in TailOf(active) :
        /\ t = [node |-> active, number |-> crossings', left |-> Pickdown[active]]
        /\ t \in Tails /\ t.node = active /\ t.number = crossings'
        /\ t.left = Pickdown[active] /\ t.left \in 1..Pickdown[t.node]
  BY <1>1, <1>2 DEF TailOf, Tails
<1>5. \A t \in tails : t.node # active
  <2> SUFFICES ASSUME NEW t \in tails, t.node = active PROVE FALSE
    OBVIOUS
  <2>1. Pickdown[active] - t.left >= Boundary(active) /\ t.left \in 1..Pickdown[active]
    BY <1>1, <1>3 DEF IInv, AgeCoversPosition, TypeOK
  <2> QED BY <1>2, <2>1
<1>6. TypeOK'
  <2>1. \A t \in tails' : t \in Tails /\ t.left \in 1..Pickdown[t.node] /\ t.number <= crossings'
    <3>1. \A t \in tails : t \in Tails /\ t.left \in 1..Pickdown[t.node] /\ t.number <= crossings'
      BY <1>1 DEF IInv, TypeOK, Tails
    <3> QED BY <1>1, <1>4, <3>1
  <2>2. active' # None => position' <= Boundary(active')
    BY <1>1, MeasureFacts
  <2> QED BY <1>1, <2>1, <2>2 DEF IInv, TypeOK
<1>7. OneTailPerNode'
  <2> SUFFICES ASSUME NEW t \in tails', NEW u \in tails', t.node = u.node
               PROVE  t = u
    BY DEF OneTailPerNode
  <2>1. CASE t \in tails /\ u \in tails
    BY <2>1 DEF IInv, OneTailPerNode
  <2>2. CASE t \in TailOf(active) /\ u \in TailOf(active)
    BY <1>4, <2>2
  <2> QED BY <1>1, <1>4, <1>5, <2>1, <2>2
<1>8. AgeCoversPosition'
  <2>1. \A t \in tails' : t.left \in 1..Pickdown[t.node] /\ Pickdown[t.node] \in Nat
    BY <1>6, Timelines DEF TypeOK, Tails
  <2> QED BY <1>1, <2>1 DEF AgeCoversPosition
<1> QED
  BY <1>6, <1>7, <1>8 DEF IInv

(* Pressing play at a node, from wherever playback stands, keeps the       *)
(* invariant.                                                              *)
LEMMA PlayPreserves == IInv /\ PlayNode => IInv'
<1> SUFFICES ASSUME IInv, NEW n \in Nodes, Play(n), UNCHANGED crossings
             PROVE  IInv'
  BY DEF PlayNode
<1>1. active' = n /\ position' = 0 /\ Boundary(n) \in Nat
  BY MeasureFacts DEF Play
<1>2. jumped' \in BOOLEAN /\ tails' = {}
  BY DEF Play
<1>3. position' <= Boundary(active') /\ crossings' \in Nat
  BY <1>1 DEF IInv, TypeOK
<1>4. TypeOK'
  BY <1>1, <1>2, <1>3 DEF TypeOK
<1> QED
  BY <1>2, <1>4 DEF IInv, OneTailPerNode, AgeCoversPosition

(* The invariant holds of every behaviour: no tail sounds that is younger  *)
(* than the position of the node that plays.                               *)
THEOREM IInvHolds == Spec => []IInv
<1>1. IInv /\ [Next]_vars => IInv'
  <2> SUFFICES ASSUME IInv, [Next]_vars PROVE IInv'
    OBVIOUS
  <2>1. CASE Jump
    BY <2>1, JumpPreserves
  <2>2. CASE Advance
    BY <2>2, AdvancePreserves
  <2>3. CASE CrossBoundary
    BY <2>3, CrossBoundaryPreserves
  <2>4. CASE PlayNode
    BY <2>4, PlayPreserves
  <2>5. CASE UNCHANGED vars
    BY <2>5 DEF vars, IInv, TypeOK, OneTailPerNode, AgeCoversPosition
  <2> QED BY <2>1, <2>2, <2>3, <2>4, <2>5 DEF Next
<1> QED
  BY <1>1, InitIInv, PTL DEF Spec

(* Positions and what is left of tails keep within their nodes.            *)
THEOREM TypeCorrect == Spec => []TypeOK
  BY IInvHolds, PTL DEF IInv

(* A node's tail has ended before the node starts another.                  *)
THEOREM NoSecondTail == Spec => []OneTailPerNode
  BY IInvHolds, PTL DEF IInv

(* The bound that prove_pickdown_overlap_bound() reports is one.            *)
THEOREM BoundIsSound == Spec => []TailsWithinBound
<1>1. IInv => TailsWithinBound
  <2> SUFFICES ASSUME IInv PROVE TailsWithinBound
    OBVIOUS
  <2> DEFINE P == {n \in Nodes : Pickdown[n] # 0}
  <2>1. IsFiniteSet(P)
    BY Timelines, FS_Subset
  <2> DEFINE f == [t \in tails |-> t.node]
  <2>2. f \in [tails -> P]
    BY Timelines DEF IInv, TypeOK, Tails
  <2>3. \A t, u \in tails : f[t] = f[u] => t = u
    BY DEF IInv, OneTailPerNode
  <2>4. f \in Injection(tails, P)
    <3> HIDE DEF f, P
    <3> QED BY <2>2, <2>3, Fun_IsInj
  <2>5. Cardinality(tails) <= Cardinality(P)
    <3> HIDE DEF f, P
    <3> QED BY <2>1, <2>4, FS_Injection
  <2> QED BY <2>5 DEF TailsWithinBound, PickdownBound
<1> QED
  BY <1>1, IInvHolds, PTL
=============================================================================
