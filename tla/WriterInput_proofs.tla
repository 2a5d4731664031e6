------------------------ MODULE WriterInput_proofs ------------------------
(***************************************************************************)
(* Proofs about what the writer makes of its user's input: the selection   *)
(* tool (SelectionTool) and the window with its gestures (WriterShell).    *)
(*                                                                         *)
(* The selection tool's property is about steps. It rests on three facts   *)
(* of states: while no measure drag is stray, the drag in progress is that *)
(* of the press whose release is awaited; a selected range lies within the *)
(* staff scope that its extension starts from; and the highlight is that   *)
(* of what is being selected.                                              *)
(*                                                                         *)
(* The window's properties are about an event whose turn comes late. What  *)
(* the shell holds, sees and tracks is then out of date by exactly what    *)
(* waits, and so each invariant says how the queue makes up for it: the    *)
(* modifiers are those that the key events before a place turned them to;  *)
(* a press or a release lies where the pointer event before it did; and a  *)
(* finger is where the last of its own events that waits says, or where    *)
(* its slot says if there is none.                                         *)
(***************************************************************************)
EXTENDS SelectionTool, WriterShell, Subsequences

-----------------------------------------------------------------------------
(* The selection tool: points and spans *)

(* A set of staves that is not empty has a first and a last.                *)
LEMMA OuterStaves ==
  ASSUME NEW T, T \subseteq Staffs, T # {}
  PROVE  /\ \E n \in T : \A m \in T : n <= m
         /\ \E n \in T : \A m \in T : m <= n
<1>0. StaffCount \in Nat
  BY ScoreIsFormed
<1>1. T \subseteq Nat /\ \A n \in T : n <= StaffCount
  BY <1>0 DEF Staffs
<1>2. \E n \in T : \A m \in T : n <= m
  BY <1>1, LeastNumber
<1>3. \E n \in T : \A m \in T : m <= n
  <2> DEFINE U == {StaffCount - n : n \in T}
  <2>1. \A n \in T : StaffCount - n \in Nat
    BY <1>0, <1>1
  <2>2. U \subseteq Nat /\ U # {}
    BY <2>1
  <2>3. PICK u \in U : \A v \in U : u <= v
    <3> HIDE DEF U
    <3> QED
      BY <2>2, LeastNumber
  <2>4. PICK n \in T : u = StaffCount - n
    OBVIOUS
  <2>5. \A m \in T : StaffCount - n <= StaffCount - m
    BY <2>3, <2>4
  <2>6. \A m \in T : m <= n
    BY <1>0, <1>1, <2>5
  <2> QED
    BY <2>6
<1> QED
  BY <1>2, <1>3

(* What a span resolves to is nothing, or a range of the voices that sound  *)
(* in it between two staves.                                                *)
LEMMA RangeBuilt ==
  ASSUME NEW lengths, NEW start, NEW end, NEW from \in Staffs, NEW to \in Staffs, NEW s,
         s = BuildRange(lengths, start, end, from, to), s # Nothing
  PROVE  /\ s.kind = "range" /\ s.start = start /\ s.end = end
         /\ s.items = Overlapped(lengths, start, from, to)
         /\ s.items \subseteq RangeItems /\ s.items # {}
         /\ \A i \in s.items : Amid(i[1], from, to)
<1>1. /\ Overlapped(lengths, start, from, to) # {}
      /\ s = [kind |-> "range", start |-> start, end |-> end,
              items |-> Overlapped(lengths, start, from, to)]
  BY DEF BuildRange
<1> QED
  BY <1>1 DEF Overlapped

(* The staff scope after a drag is that of the range it selected.           *)
LEMMA ScopeOfRange ==
  ASSUME NEW s, s.items \subseteq RangeItems, s.items # {}
  PROVE  /\ SyncedScope(s) \in Staffs \X Staffs
         /\ \A i \in s.items : Amid(i[1], SyncedScope(s)[1], SyncedScope(s)[2])
<1> DEFINE T == {i[1] : i \in s.items}
           first == CHOOSE n \in T : \A m \in T : n <= m
           last  == CHOOSE n \in T : \A m \in T : m <= n
<1>1. T \subseteq Staffs /\ T # {}
  BY DEF RangeItems
<1>2. /\ first \in T /\ \A m \in T : first <= m
      /\ last \in T /\ \A m \in T : m <= last
  <2> HIDE DEF T
  <2> QED
    BY <1>1, OuterStaves
<1>3. SyncedScope(s) = <<first, last>>
  BY DEF SyncedScope
<1>4. \A m \in T : first <= m /\ m <= last /\ first <= last
  BY <1>1, <1>2
<1>5. \A m \in T : Amid(m, first, last)
  <2> HIDE DEF T, first, last
  <2> QED
    BY <1>1, <1>2, <1>4, ScoreIsFormed DEF Amid, Lower, Higher, Staffs
<1> HIDE DEF first, last
<1> QED
  BY <1>1, <1>2, <1>3, <1>5

-----------------------------------------------------------------------------
(* The selection tool: the invariant *)

(* The tool's types.                                                        *)
ToolTyped ==
  /\ filled \in Contents
  /\ measureDrag \in Spots \union {Unset}
  /\ rangeDrag # Unset => rangeDrag \in [anchor : Spots, live : Found]
  /\ moved \in BOOLEAN /\ stray \in BOOLEAN
  /\ gesture # Unset => gesture \in [kind : {"range", "measures"}, at : Spots, moved : BOOLEAN]

(* While no measure drag has outlived its press, the drag in progress is    *)
(* that of the press whose release is awaited, there is but one, and it     *)
(* lasts as long as the release is awaited.                                 *)
GestureIsHeld ==
  ~stray =>
    /\ measureDrag # Unset =>
         /\ rangeDrag = Unset /\ gesture # Unset
         /\ gesture.kind = "measures" /\ gesture.at = measureDrag
    /\ measureDrag = Unset /\ rangeDrag # Unset =>
         /\ gesture # Unset /\ gesture.kind = "range"
         /\ gesture.at = rangeDrag.anchor /\ gesture.moved = moved
    /\ gesture # Unset => measureDrag # Unset \/ rangeDrag # Unset

(* A selected range spans the voices of staves within the scope.            *)
RangeIsScoped ==
  selection.kind = "range" =>
    /\ selection \in Found
    /\ scope \in Staffs \X Staffs
    /\ \A i \in selection.items : Amid(i[1], scope[1], scope[2])

ToolInv == ToolTyped /\ GestureIsHeld /\ RangeIsScoped /\ HighlightIsCurrent

(* What two points, or a span between two staves, resolve to.               *)
LEMMA RangeFound ==
  /\ \A start, end \in Int, from, to \in Staffs :
       BuildRange(filled, start, end, from, to) \in Found
  /\ \A a, p \in Spots : ResolveRange(filled, a, p) \in Found
<1>1. ASSUME NEW start \in Int, NEW end \in Int, NEW from \in Staffs, NEW to \in Staffs
      PROVE  BuildRange(filled, start, end, from, to) \in Found
  <2>1. Overlapped(filled, start, from, to) \in SUBSET RangeItems
    BY DEF Overlapped
  <2> QED
    BY <2>1 DEF BuildRange, Found
<1>2. ASSUME NEW a \in Spots, NEW p \in Spots
      PROVE  ResolveRange(filled, a, p) \in Found
  <2>1. /\ a.time \in Int /\ p.time \in Int
        /\ a.staff \in Staffs \union {Unset} /\ p.staff \in Staffs \union {Unset}
    BY SpotsAreFormed
  <2>2. Lower(a.time, p.time) \in Int /\ Higher(a.time, p.time) \in Int
    BY <2>1 DEF Lower, Higher
  <2> QED
    BY <1>1, <2>1, <2>2 DEF ResolveRange, Found
<1> QED
  BY <1>1, <1>2

(* A single thing is not a range, nor are measures.                         *)
LEMMA NotRanges ==
  /\ \A n \in Named \union {Nothing} : n.kind # "range"
  /\ \A p \in Spots : ResolveAt(p).kind # "range"
  /\ \A a, p \in Spots : ResolveMeasures(a, p).kind # "range"
<1>1. \A n \in Named \union {Nothing} : n.kind # "range"
  BY SpotsAreFormed DEF Nothing
<1>2. \A p \in Spots : p.names \in Named \union {Nothing}
  BY SpotsAreFormed
<1> QED
  <2>1. \A p \in Spots : ResolveAt(p) \in Named \union {Nothing}
    BY <1>2 DEF ResolveAt
  <2>2. \A a, p \in Spots : ResolveMeasures(a, p).kind # "range"
    BY DEF ResolveMeasures, Nothing
  <2> QED
    BY <1>1, <2>1, <2>2

(* A selection taken from a single thing, or left, keeps the range scoped.  *)
LEMMA SettingASelection ==
  ASSUME ToolInv, NEW s, s.kind # "range", SetSelection(s) \/ UNCHANGED <<selection, rangeDrag, gesture>>,
         UNCHANGED <<measureDrag, moved, scope, stray>>, filled' \in Contents, UpdateHighlight
  PROVE  ToolInv'
<1>1. CASE SetSelection(s)
  <2>1. ToolTyped'
    BY <1>1 DEF SetSelection, ToolInv, ToolTyped
  <2>2. GestureIsHeld'
    BY <1>1 DEF SetSelection, ToolInv, GestureIsHeld
  <2>3. RangeIsScoped' /\ HighlightIsCurrent'
    BY <1>1 DEF SetSelection, RangeIsScoped, HighlightIsCurrent, UpdateHighlight
  <2> QED
    BY <2>1, <2>2, <2>3 DEF ToolInv
<1>2. CASE UNCHANGED <<selection, rangeDrag, gesture>>
  <2>1. ToolTyped'
    BY <1>2 DEF ToolInv, ToolTyped
  <2>2. GestureIsHeld'
    BY <1>2 DEF ToolInv, GestureIsHeld
  <2>3. RangeIsScoped' /\ HighlightIsCurrent'
    BY <1>2 DEF ToolInv, RangeIsScoped, HighlightIsCurrent, UpdateHighlight
  <2> QED
    BY <2>1, <2>2, <2>3 DEF ToolInv
<1> QED
  BY <1>1, <1>2

(* A range that an extension widens or narrows: what it resolved to, and    *)
(* that it stays within the staves it was resolved on.                      *)
LEMMA Extending ==
  ASSUME ToolInv, NEW start \in Int, NEW end \in Int, NEW from \in Staffs, NEW to \in Staffs,
         NEW s, s = BuildRange(filled, start, end, from, to), s # Nothing,
         Widened(s), scope' = <<from, to>>
  PROVE  ToolInv'
<1>1. /\ s \in Found /\ selection' = s /\ s.kind = "range"
      /\ \A i \in s.items : Amid(i[1], from, to)
  <2>1. s \in Found
    BY RangeFound
  <2>2. s.kind = "range" /\ \A i \in s.items : Amid(i[1], from, to)
    BY RangeBuilt
  <2> QED
    BY <2>1, <2>2 DEF Widened, SetSelection
<1>2. ToolTyped'
  BY DEF Widened, SetSelection, ToolInv, ToolTyped
<1>3. GestureIsHeld'
  BY DEF Widened, SetSelection, ToolInv, GestureIsHeld
<1>4. RangeIsScoped'
  BY <1>1 DEF RangeIsScoped
<1>5. HighlightIsCurrent'
  BY DEF Widened, UpdateHighlight, HighlightIsCurrent
<1> QED
  BY <1>2, <1>3, <1>4, <1>5 DEF ToolInv

(* What moving an edge comes to: the same as building the range anew        *)
(* between the edge that stays and the new one, in the same scope; the edge *)
(* that stays is then the one the focus is not on.                          *)
LEMMA EdgeMoves ==
  ASSUME ToolInv, NEW edge, NEW time \in Int, ExtendRangeEdge(edge, time)
  PROVE  \E start, end \in Int :
           /\ Opposite(selection, edge) = (IF focusEdge' = "start" THEN end ELSE start)
           /\ BuildRange(filled, start, end, scope[1], scope[2]) # Nothing
           /\ Widened(BuildRange(filled, start, end, scope[1], scope[2]))
           /\ scope \in Staffs \X Staffs /\ scope' = scope /\ selection.kind = "range"
           /\ \A i \in selection.items : i \in RangeItems /\ Amid(i[1], scope[1], scope[2])
<1> DEFINE fixed == Opposite(selection, edge)
           from  == Lower(time, fixed)
           to    == Higher(time, fixed)
           s     == ResolveSpec(filled, from, to, scope[1], scope[2])
<1>1. /\ selection.kind = "range" /\ s # Nothing /\ Widened(s) /\ UNCHANGED scope
      /\ focusEdge' = IF from = time THEN "start" ELSE "end"
  BY DEF ExtendRangeEdge, MovedEdge, Opposite
<1>2. /\ selection \in Found /\ scope \in Staffs \X Staffs
      /\ \A i \in selection.items : Amid(i[1], scope[1], scope[2])
  BY <1>1 DEF ToolInv, RangeIsScoped
<1>3. selection.start \in Int /\ selection.end \in Int /\ selection.items \subseteq RangeItems
  BY <1>1, <1>2 DEF Found, Nothing
<1>4. from \in Int /\ to \in Int /\ fixed \in Int
  BY <1>3 DEF Opposite, Lower, Higher
<1>5. s = BuildRange(filled, from, to, scope[1], scope[2])
  BY <1>1 DEF ResolveSpec
<1>6. fixed = (IF from = time THEN to ELSE from)
  BY <1>4 DEF Lower, Higher
<1>7. fixed = (IF focusEdge' = "start" THEN to ELSE from)
  <2> HIDE DEF fixed, from, to, s
  <2> QED BY <1>1, <1>6
<1>8. Opposite(selection, edge) = (IF focusEdge' = "start" THEN to ELSE from)
  BY <1>7
<1> HIDE DEF fixed, from, to, s
<1> QED
  BY <1>1, <1>2, <1>3, <1>4, <1>5, <1>8

(* The edge that an extension moves, and where to.                          *)
LEMMA EdgeTimes ==
  ASSUME ToolInv, NEW edge, Extends(edge)
  PROVE  \E time \in Int : ExtendRangeEdge(edge, time)
<1>1. EndOfNode \in Int /\ Step \in Int
  BY ScoreIsFormed DEF EndOfNode
<1>2. ASSUME NEW by \in {-Step, Step}, edge = focusEdge, ShiftEdge(by)
      PROVE  \E time \in Int : ExtendRangeEdge(edge, time)
  <2>1. selection.start \in Int /\ selection.end \in Int
    BY <1>2 DEF ShiftEdge, ToolInv, RangeIsScoped, Found, Nothing
  <2> DEFINE time == by + (IF focusEdge = "start" THEN selection.start ELSE selection.end)
  <2>2. time \in Int
    BY <1>1, <2>1
  <2>3. ExtendRangeEdge(edge, time)
    BY <1>2 DEF ShiftEdge
  <2> QED
    BY <2>2, <2>3
<1>3. CASE edge = "start" /\ SelectToNodeStart
  BY <1>3 DEF SelectToNodeStart
<1>4. CASE edge = "end" /\ SelectToNodeEnd
  BY <1>1, <1>4 DEF SelectToNodeEnd
<1> QED
  BY <1>2, <1>3, <1>4 DEF Extends

-----------------------------------------------------------------------------
(* The selection tool: the invariant is kept *)

(* A press or a move of the pointer.                                        *)
LEMMA PointerToolStep ==
  ASSUME ToolInv, NEW p \in Spots,
         \/ PressToEnter(p) \/ PressOnMeasure(p) \/ Press(p) \/ MoveToEnter(p) \/ Move(p)
  PROVE  ToolInv'
<1> USE DEF ToolInv
<1>1. CASE PressToEnter(p) \/ MoveToEnter(p)
  <2> USE <1>1 DEF PressToEnter, MoveToEnter
  <2>1. ToolTyped'
    BY DEF ToolTyped
  <2>2. GestureIsHeld'
    BY DEF GestureIsHeld
  <2>3. RangeIsScoped' /\ HighlightIsCurrent'
    BY DEF RangeIsScoped, HighlightIsCurrent
  <2> QED
    BY <2>1, <2>2, <2>3
<1>2. CASE PressOnMeasure(p)
  <2> USE <1>2 DEF PressOnMeasure
  <2>1. ToolTyped'
    BY DEF ToolTyped
  <2>2. GestureIsHeld'
    BY UnsetIsNoPress DEF GestureIsHeld
  <2>3. RangeIsScoped'
    BY DEF RangeIsScoped
  <2>4. HighlightIsCurrent'
    BY UnsetIsNoPress DEF HighlightIsCurrent
  <2> QED
    BY <2>1, <2>2, <2>3, <2>4
<1>3. CASE Press(p)
  <2> USE <1>3 DEF Press
  <2>1. ToolTyped'
    BY DEF ToolTyped, Begun, Found
  <2>2. GestureIsHeld'
    BY UnsetIsNoPress DEF ToolTyped, GestureIsHeld, Begun
  <2>3. RangeIsScoped' /\ HighlightIsCurrent'
    BY DEF RangeIsScoped, HighlightIsCurrent, UpdateHighlight
  <2> QED
    BY <2>1, <2>2, <2>3
<1>4. CASE Move(p)
  <2>0. gesture' = IF gesture = Unset THEN Unset ELSE [gesture EXCEPT !.moved = TRUE]
    BY <1>4 DEF Move, Follow
  <2>1. gesture # Unset =>
          /\ gesture' = [kind |-> gesture.kind, at |-> gesture.at, moved |-> TRUE]
          /\ gesture' # Unset
    BY <2>0, UnsetIsNoPress DEF ToolTyped
  <2>2. CASE measureDrag # Unset /\ UNCHANGED <<rangeDrag, highlight>>
    <3>1. ToolTyped'
      BY <1>4, <2>0, <2>1, <2>2 DEF Move, ToolTyped
    <3>2. GestureIsHeld'
      BY <1>4, <2>1, <2>2 DEF Move, GestureIsHeld
    <3>3. RangeIsScoped' /\ HighlightIsCurrent'
      BY <1>4, <2>2 DEF Move, RangeIsScoped, HighlightIsCurrent
    <3> QED
      BY <3>1, <3>2, <3>3
  <2>3. CASE /\ measureDrag = Unset /\ rangeDrag # Unset /\ p.finite
             /\ rangeDrag' = Updated(p) /\ UpdateHighlight
    <3> DEFINE l == ResolveRange(filled, rangeDrag.anchor, p)
    <3>1. /\ rangeDrag' = [anchor |-> rangeDrag.anchor, live |-> l]
          /\ rangeDrag.anchor \in Spots /\ l \in Found
      BY <2>3, RangeFound DEF Updated, ToolTyped
    <3>2. moved' = TRUE /\ UNCHANGED <<filled, measureDrag, stray>>
      BY <1>4 DEF Move
    <3> HIDE DEF l
    <3>3. rangeDrag' \in [anchor : Spots, live : Found] /\ rangeDrag'.anchor = rangeDrag.anchor
      BY <3>1
    <3>4. ToolTyped'
      <4>1. gesture' # Unset =>
              gesture' \in [kind : {"range", "measures"}, at : Spots, moved : BOOLEAN]
        BY <2>0, <2>1 DEF ToolTyped
      <4> QED
        BY <3>2, <3>3, <4>1 DEF ToolTyped
    <3>5. GestureIsHeld'
      <4>1. measureDrag = Unset /\ rangeDrag # Unset
        BY <2>3
      <4>2. ~stray' => /\ gesture' # Unset /\ gesture'.kind = gesture.kind
                       /\ gesture'.at = gesture.at /\ gesture'.moved = TRUE
                       /\ gesture.kind = "range" /\ gesture.at = rangeDrag.anchor
        BY <2>1, <3>2, <4>1 DEF GestureIsHeld
      <4>3. rangeDrag' # Unset
        BY <3>3, UnsetIsNoPress
      <4> QED
        BY <3>2, <3>3, <4>1, <4>2, <4>3 DEF GestureIsHeld
    <3>6. RangeIsScoped' /\ HighlightIsCurrent'
      BY <1>4, <2>3 DEF Move, RangeIsScoped, HighlightIsCurrent, UpdateHighlight
    <3> QED
      BY <3>4, <3>5, <3>6
  <2> QED
    BY <1>4, <2>2, <2>3 DEF Move
<1> QED
  BY <1>1, <1>2, <1>3, <1>4

(* A release, which is where a drag becomes a selection.                    *)
LEMMA ReleaseToolStep ==
  ASSUME ToolInv, NEW p \in Spots, Release(p)
  PROVE  ToolInv'
<1> USE DEF ToolInv
<1>1. CASE ReleaseOnMeasure(p)
  <2>1. /\ measureDrag' = Unset /\ gesture' = Unset /\ stray' = (stray /\ rangeDrag' # Unset)
        /\ UNCHANGED <<filled, moved, scope>> /\ UpdateHighlight
        /\ \/ selection' = selection /\ rangeDrag' = rangeDrag
           \/ selection' = ResolveMeasures(measureDrag, p) /\ rangeDrag' = Unset
        /\ measureDrag \in Spots
    BY <1>1 DEF ReleaseOnMeasure, ToolTyped
  <2>2. ToolTyped'
    BY <2>1 DEF ToolTyped
  <2>3. GestureIsHeld'
    BY <1>1, <2>1 DEF ReleaseOnMeasure, ToolTyped, GestureIsHeld
  <2>4. RangeIsScoped'
    BY <2>1, NotRanges DEF RangeIsScoped
  <2>5. HighlightIsCurrent'
    BY <2>1 DEF HighlightIsCurrent, UpdateHighlight
  <2> QED
    BY <2>2, <2>3, <2>4, <2>5
<1>2. CASE Click(p)
  <2>1. ToolTyped' /\ GestureIsHeld'
    BY <1>2 DEF Click, ToolTyped, GestureIsHeld
  <2>2. RangeIsScoped'
    BY <1>2, NotRanges DEF Click, RangeIsScoped
  <2>3. HighlightIsCurrent'
    BY <1>2 DEF Click, HighlightIsCurrent, UpdateHighlight
  <2> QED
    BY <2>1, <2>2, <2>3
<1>3. CASE ReleaseDrag(p)
  <2> DEFINE s == IF p.finite THEN ResolveRange(filled, rangeDrag.anchor, p) ELSE Nothing
  <2>1. /\ selection' = (IF s = Nothing THEN selection ELSE s)
        /\ scope' = (IF s = Nothing THEN scope ELSE SyncedScope(s))
        /\ rangeDrag' = Unset /\ gesture' = Unset /\ stray' = FALSE
        /\ UNCHANGED <<filled, measureDrag, moved>> /\ UpdateHighlight
        /\ rangeDrag.anchor \in Spots /\ measureDrag = Unset
    BY <1>3 DEF ReleaseDrag, ToolTyped
  <2>2. ToolTyped' /\ GestureIsHeld'
    BY <2>1 DEF ToolTyped, GestureIsHeld
  <2>3. HighlightIsCurrent'
    BY <2>1 DEF HighlightIsCurrent, UpdateHighlight
  <2>4. RangeIsScoped'
    <3>1. CASE s = Nothing
      BY <2>1, <3>1 DEF RangeIsScoped
    <3>2. CASE s # Nothing
      <4>1. s \in Found /\ s = ResolveRange(filled, rangeDrag.anchor, p)
        BY <2>1, <3>2, RangeFound
      <4>2. s.items \subseteq RangeItems /\ s.items # {}
        <5>1. /\ rangeDrag.anchor.staff \in Staffs /\ p.staff \in Staffs
              /\ s = BuildRange(filled, Lower(rangeDrag.anchor.time, p.time),
                                Higher(rangeDrag.anchor.time, p.time),
                                rangeDrag.anchor.staff, p.staff)
          <6>1. /\ rangeDrag.anchor.staff \in Staffs \union {Unset}
                /\ p.staff \in Staffs \union {Unset}
            BY <2>1, SpotsAreFormed
          <6>2. ~(~rangeDrag.anchor.finite \/ ~p.finite
                   \/ rangeDrag.anchor.staff = Unset \/ p.staff = Unset)
            BY <3>2, <4>1 DEF ResolveRange
          <6> HIDE DEF s
          <6> QED
            BY <4>1, <6>1, <6>2 DEF ResolveRange
        <5>2. \A start, end : \A from, to \in Staffs :
                LET r == BuildRange(filled, start, end, from, to)
                IN  r # Nothing => r.items \subseteq RangeItems /\ r.items # {}
          BY RangeBuilt
        <5> HIDE DEF s
        <5> QED
          BY <3>2, <5>1, <5>2
      <4> HIDE DEF s
      <4> QED
        BY <2>1, <3>2, <4>1, <4>2, ScopeOfRange DEF RangeIsScoped
    <3> QED
      BY <3>1, <3>2
  <2> QED
    BY <2>2, <2>3, <2>4
<1> QED
  BY <1>1, <1>2, <1>3 DEF Release

(* Where a gesture is dropped or the music changes beneath it.              *)
LEMMA OtherToolStep ==
  ASSUME ToolInv,
         \/ CancelPointer \/ ToggleTool \/ Edit
         \/ \E primary \in BOOLEAN : ReleaseToEnter(primary)
  PROVE  ToolInv'
<1> USE DEF ToolInv
<1>1. CASE CancelPointer
  <2>1. ToolTyped' /\ GestureIsHeld'
    BY <1>1 DEF CancelPointer, ToolTyped, GestureIsHeld
  <2>2. RangeIsScoped' /\ HighlightIsCurrent'
    BY <1>1 DEF CancelPointer, RangeIsScoped, HighlightIsCurrent, UpdateHighlight
  <2> QED
    BY <2>1, <2>2
<1>2. CASE ToggleTool
  <2>1. ToolTyped' /\ GestureIsHeld'
    BY <1>2 DEF ToggleTool, ToolTyped, GestureIsHeld
  <2>2. RangeIsScoped' /\ HighlightIsCurrent'
    BY <1>2 DEF ToggleTool, RangeIsScoped, HighlightIsCurrent, UpdateHighlight
  <2> QED
    BY <2>1, <2>2
<1>3. CASE Edit
  <2>1. PICK s \in Named \union {Nothing} :
               SetSelection(s) \/ UNCHANGED <<selection, rangeDrag, gesture>>
    BY <1>3 DEF Edit
  <2> QED
    BY <1>3, <2>1, NotRanges, SettingASelection DEF Edit
<1>4. ASSUME NEW primary \in BOOLEAN, ReleaseToEnter(primary)
      PROVE  ToolInv'
  <2>1. CASE primary /\ pending /\ filled' \in Contents /\ UpdateHighlight
               /\ ((\E s \in Named : SetSelection(s)) \/ UNCHANGED <<selection, rangeDrag, gesture>>)
    <3>1. PICK s \in Named \union {Nothing} :
                 SetSelection(s) \/ UNCHANGED <<selection, rangeDrag, gesture>>
      BY <2>1
    <3> QED
      BY <1>4, <2>1, <3>1, NotRanges, SettingASelection DEF ReleaseToEnter
  <2>2. CASE UNCHANGED <<filled, selection, rangeDrag, gesture, highlight>>
    <3>1. ToolTyped'
      BY <1>4, <2>2 DEF ReleaseToEnter, ToolTyped
    <3>2. GestureIsHeld'
      BY <1>4, <2>2 DEF ReleaseToEnter, GestureIsHeld
    <3>3. RangeIsScoped' /\ HighlightIsCurrent'
      BY <1>4, <2>2 DEF ReleaseToEnter, RangeIsScoped, HighlightIsCurrent
    <3> QED
      BY <3>1, <3>2, <3>3
  <2> QED
    BY <1>4, <2>1, <2>2 DEF ReleaseToEnter
<1> QED
  BY <1>1, <1>2, <1>3, <1>4

(* An extension by keys or by the staff scope.                              *)
LEMMA ExtendToolStep ==
  ASSUME ToolInv,
         \/ \E by \in {-Step, Step} : ShiftEdge(by)
         \/ SelectToNodeStart \/ SelectToNodeEnd \/ ScopeUp \/ ScopeDown
         \/ \E first, last \in Staffs : ExtendRangeStaffScope(first, last)
  PROVE  ToolInv'
<1>1. CASE (\E by \in {-Step, Step} : ShiftEdge(by)) \/ SelectToNodeStart \/ SelectToNodeEnd
  <2>0. PICK edge : Extends(edge)
    BY <1>1 DEF Extends
  <2>1. PICK time \in Int : ExtendRangeEdge(edge, time)
    BY <2>0, EdgeTimes
  <2>2. PICK start \in Int, end \in Int :
           /\ BuildRange(filled, start, end, scope[1], scope[2]) # Nothing
           /\ Widened(BuildRange(filled, start, end, scope[1], scope[2]))
           /\ scope \in Staffs \X Staffs /\ scope' = scope
    BY <2>1, EdgeMoves
  <2>3. scope[1] \in Staffs /\ scope[2] \in Staffs /\ scope' = <<scope[1], scope[2]>>
    BY <2>2
  <2> QED
    BY <2>2, <2>3, Extending
<1>2. ASSUME NEW first \in Staffs, NEW last \in Staffs, ExtendRangeStaffScope(first, last)
      PROVE  ToolInv'
  <2>1. /\ selection.start \in Int /\ selection.end \in Int
    BY <1>2 DEF ExtendRangeStaffScope, ToolInv, RangeIsScoped, Found, Nothing
  <2> QED
    BY <1>2, <2>1, Extending DEF ExtendRangeStaffScope
<1>3. CASE ScopeUp \/ ScopeDown
  <2>1. scope \in Staffs \X Staffs
    BY <1>3 DEF ScopeUp, ScopeDown, ExtendRangeStaffScope, ToolInv, RangeIsScoped
  <2>2. \E first, last \in Staffs : ExtendRangeStaffScope(first, last)
    <3>1. CASE ScopeUp
      <4>1. scope[1] - 1 \in Staffs /\ scope[2] \in Staffs
        BY <2>1, <3>1, ScoreIsFormed DEF ScopeUp, Staffs
      <4> QED
        BY <3>1, <4>1 DEF ScopeUp
    <3>2. CASE ScopeDown
      <4>1. scope[1] \in Staffs /\ scope[2] + 1 \in Staffs
        BY <2>1, <3>2, ScoreIsFormed DEF ScopeDown, Staffs
      <4> QED
        BY <3>2, <4>1 DEF ScopeDown
    <3> QED
      BY <1>3, <3>1, <3>2
  <2> QED
    BY <1>2, <2>2
<1> QED
  BY <1>1, <1>2, <1>3

(* In every state of the tool a release finds the drag of its own press, a  *)
(* selected range lies in its scope and the highlight is current, for any   *)
(* score, staves, spots and voices.                                         *)
THEOREM ToolInductive == ToolSpec => []ToolInv
<1>1. ToolInit => ToolInv
  <2> SUFFICES ASSUME ToolInit PROVE ToolInv
    OBVIOUS
  <2>1. Prominent(Unset, Nothing) = Nothing /\ RangeHighlight(Nothing) = {}
    BY DEF Prominent, RangeHighlight, Nothing
  <2>2. HighlightIsCurrent
    BY <2>1 DEF ToolInit, HighlightIsCurrent
  <2> QED
    BY <2>2 DEF ToolInit, ToolInv, ToolTyped, GestureIsHeld, RangeIsScoped, Nothing
<1>2. ToolInv /\ [ToolNext]_toolVars => ToolInv'
  <2> SUFFICES ASSUME ToolInv, [ToolNext]_toolVars PROVE ToolInv'
    OBVIOUS
  <2>1. CASE ToolNext
    BY <2>1, PointerToolStep, ReleaseToolStep, OtherToolStep, ExtendToolStep DEF ToolNext
  <2>2. CASE UNCHANGED toolVars
    BY <2>2 DEF toolVars, ToolInv, ToolTyped, GestureIsHeld, RangeIsScoped, HighlightIsCurrent
  <2> QED
    BY <2>1, <2>2
<1> QED
  BY <1>1, <1>2, PTL DEF ToolSpec

-----------------------------------------------------------------------------
(* The selection tool: what its steps may do *)

(* A release commits what its own press began, and never drops it.          *)
LEMMA ReleasesAreMeant ==
  ASSUME ToolInv PROVE ReleaseIsMeant
<1> SUFFICES ASSUME NEW p \in Spots, ~stray, Release(p)
             PROVE  /\ gesture # Unset
                    /\ selection' = IF Meant(gesture, p) = Nothing THEN selection
                                    ELSE Meant(gesture, p)
  BY DEF ReleaseIsMeant
<1> USE DEF ToolInv
<1>1. CASE ReleaseOnMeasure(p)
  <2>1. gesture # Unset /\ Meant(gesture, p) = ResolveMeasures(measureDrag, p)
    BY <1>1 DEF ReleaseOnMeasure, GestureIsHeld, Meant
  <2> QED
    BY <1>1, <2>1 DEF ReleaseOnMeasure
<1>2. CASE Click(p)
  <2>1. gesture # Unset /\ Meant(gesture, p) = ResolveAt(p)
    BY <1>2 DEF Click, GestureIsHeld, Meant
  <2> QED
    BY <1>2, <2>1 DEF Click
<1>3. CASE ReleaseDrag(p)
  <2>1. gesture # Unset /\ Meant(gesture, p) = ResolveRange(filled, rangeDrag.anchor, p)
    BY <1>3 DEF ReleaseDrag, GestureIsHeld, Meant
  <2>2. ~p.finite => ResolveRange(filled, rangeDrag.anchor, p) = Nothing
    BY DEF ResolveRange
  <2> QED
    BY <1>3, <2>1, <2>2 DEF ReleaseDrag
<1> QED
  BY <1>1, <1>2, <1>3 DEF Release

(* What an extension builds keeps the edge it does not move and the voices  *)
(* that sound in the new span.                                              *)
LEMMA EdgesAreKept ==
  ASSUME ToolInv PROVE EdgeIsKept
<1> SUFFICES ASSUME NEW edge \in {"start", "end"}, Extends(edge)
             PROVE  /\ Opposite(selection', focusEdge') = Opposite(selection, edge)
                    /\ {i \in selection.items : selection'.start < filled[i[1]][i[2]]}
                         \subseteq selection'.items
  BY DEF EdgeIsKept
<1>1. PICK time \in Int : ExtendRangeEdge(edge, time)
  BY EdgeTimes
<1>2. PICK start \in Int, end \in Int :
           /\ Opposite(selection, edge) = (IF focusEdge' = "start" THEN end ELSE start)
           /\ BuildRange(filled, start, end, scope[1], scope[2]) # Nothing
           /\ Widened(BuildRange(filled, start, end, scope[1], scope[2]))
           /\ scope \in Staffs \X Staffs
           /\ \A i \in selection.items : i \in RangeItems /\ Amid(i[1], scope[1], scope[2])
  BY <1>1, EdgeMoves
<1>3. /\ selection'.start = start /\ selection'.end = end
      /\ selection'.items = Overlapped(filled, start, scope[1], scope[2])
  <2>1. selection' = BuildRange(filled, start, end, scope[1], scope[2])
    BY <1>2 DEF Widened, SetSelection
  <2> QED
    BY <1>2, <2>1, RangeBuilt
<1>4. Opposite(selection', focusEdge') = Opposite(selection, edge)
  BY <1>2, <1>3 DEF Opposite
<1> QED
  BY <1>2, <1>3, <1>4 DEF Overlapped

(* The staves between two are also between two that lie further apart.      *)
LEMMA ScopesGrow ==
  ASSUME ToolInv PROVE ScopeGrows
<1> SUFFICES ASSUME ScopeUp \/ ScopeDown, scope[1] <= scope[2]
             PROVE  /\ selection'.start = selection.start /\ selection'.end = selection.end
                    /\ {i \in selection.items : selection.start < filled[i[1]][i[2]]}
                         \subseteq selection'.items
  BY DEF ScopeGrows
<1>1. /\ selection.kind = "range" /\ selection.items \subseteq RangeItems
      /\ scope \in Staffs \X Staffs
      /\ \A i \in selection.items : Amid(i[1], scope[1], scope[2])
  BY DEF ScopeUp, ScopeDown, ExtendRangeStaffScope, ToolInv, RangeIsScoped, Found, Nothing
<1>2. PICK first \in Staffs, last \in Staffs :
           /\ ExtendRangeStaffScope(first, last)
           /\ first <= scope[1] /\ scope[2] <= last
  <2>1. scope[1] \in Staffs /\ scope[2] \in Staffs
    BY <1>1
  <2>2. CASE ScopeUp
    <3>1. scope[1] - 1 \in Staffs /\ scope[1] - 1 <= scope[1]
      BY <2>1, <2>2, ScoreIsFormed DEF ScopeUp, Staffs
    <3> QED
      BY <2>1, <2>2, <3>1, ScoreIsFormed DEF ScopeUp, Staffs
  <2>3. CASE ScopeDown
    <3>1. scope[2] + 1 \in Staffs /\ scope[2] <= scope[2] + 1
      BY <2>1, <2>3, ScoreIsFormed DEF ScopeDown, Staffs
    <3> QED
      BY <2>1, <2>3, <3>1, ScoreIsFormed DEF ScopeDown, Staffs
  <2> QED
    BY <2>2, <2>3
<1>3. /\ selection'.start = selection.start /\ selection'.end = selection.end
      /\ selection'.items = Overlapped(filled, selection.start, first, last)
  <2>1. /\ selection' = BuildRange(filled, selection.start, selection.end, first, last)
        /\ selection' # Nothing
    BY <1>2 DEF ExtendRangeStaffScope, Widened, SetSelection
  <2> QED
    BY <2>1, RangeBuilt
<1>4. ASSUME NEW i \in selection.items
      PROVE  Amid(i[1], first, last)
  <2>1. i[1] \in Staffs /\ Amid(i[1], scope[1], scope[2])
    BY <1>1 DEF RangeItems
  <2>2. scope[1] \in Int /\ scope[2] \in Int /\ first \in Int /\ last \in Int /\ i[1] \in Int
    BY <1>1, <2>1, ScoreIsFormed DEF Staffs
  <2> QED
    BY <1>2, <2>1, <2>2 DEF Amid, Lower, Higher
<1> QED
  BY <1>1, <1>3, <1>4 DEF Overlapped

(* Whatever the order of presses, moves, releases, tool switches, edits and *)
(* keys: a press drags on until its release, which selects what that press  *)
(* began (both while no measure drag has outlived its press); an extension  *)
(* keeps the edge opposite to the one it moves and the voices it does not   *)
(* move away from; and the highlight is that of what is selected, after     *)
(* every step.                                                              *)
THEOREM SelectionIsAsMeant == ToolSpec => SelectionIsMeant
<1>1. ToolInv /\ ToolInv' /\ [ToolNext]_toolVars =>
        [/\ ReleaseIsMeant /\ EdgeIsKept /\ ScopeGrows
         /\ PressIsHeld' /\ HighlightIsCurrent']_toolVars
  <2>1. ToolInv => ReleaseIsMeant /\ EdgeIsKept /\ ScopeGrows
    BY ReleasesAreMeant, EdgesAreKept, ScopesGrow
  <2>2. ToolInv' => HighlightIsCurrent'
    BY DEF ToolInv
  <2>3. ToolInv' => PressIsHeld'
    BY DEF ToolInv, GestureIsHeld, PressIsHeld
  <2> QED
    BY <2>1, <2>2, <2>3
<1> QED
  BY <1>1, ToolInductive, PTL DEF ToolSpec, SelectionIsMeant

-----------------------------------------------------------------------------
(* The window: what the event queue may hold *)

Buttons == {"primary", "middle"}
Keys    == {"equals", "minus", "left", "right"}
Events ==
  [type : {"key"}, held : Modifiers, key : Keys \union {None}]
    \union [type : {"move"}, at : Points, held : Modifiers]
    \union [type : {"press", "release"}, button : Buttons, at : Points, held : Modifiers]
    \union [type : {"wheel"}, delta : {-1, 1}, at : Points, held : Modifiers]
    \union [type : {"pinch"}, scale : {-1, 1}, focal : Points \union {None}]
    \union [type : {"finger_down", "finger_move"}, id : FingerIds, at : Points]
    \union [type : {"finger_up"}, id : FingerIds]
    \union [type : {"resized"}, width : Widths]
    \union [type : {"focus_lost", "quit"}]

Finger == [id : FingerIds, at : Points]
Slots  == [1..2 -> Finger \union {None}]
\* No finger is tracked twice.
Distinct(fingers) ==
  \A s, t \in 1..2 : s # t /\ fingers[s] # None /\ fingers[t] # None => fingers[s].id # fingers[t].id
Formed(c) ==
  /\ DOMAIN c = {"view", "fingers", "centre", "middle", "focus", "told", "seen"}
  /\ DOMAIN c.view = {"world", "viewport", "zoom"}
(* The canvas: its view, slots and places.                                  *)
CanvasTyped ==
  /\ Formed(canvas) /\ canvas.view.viewport \in Int /\ canvas.fingers \in Slots
  /\ Distinct(canvas.fingers)
  /\ canvas.middle \in Points \union {None} /\ canvas.seen \in Points \union {None}

ShellSpace ==
  [stage : {"built", "loop", "drain", "returned", "gone"}, window : BOOLEAN, renderer : BOOLEAN,
   text : BOOLEAN, handler : BOOLEAN, modifiers : Modifiers, surface : Surfaces,
   texture : Surfaces \union {None}]
PlatformSpace ==
  [keyboard : Modifiers, pointer : Points, down : [FingerIds -> Points \union {None}],
   queue : Seq(Events), happened : Int, width : Widths, composing : BOOLEAN, created : Int,
   destroyed : Int]
ShellTyped == shell \in ShellSpace /\ platform \in PlatformSpace /\ lost \in BOOLEAN

(* What is open, what of it is composing and shown, and what was made.      *)
ResourceInv ==
  /\ platform.created - platform.destroyed = (IF shell.texture = None THEN 0 ELSE 1)
  /\ shell.surface # "invalid"
  /\ Stage("built") => ~shell.window /\ ~shell.renderer /\ shell.texture = None
  /\ shell.renderer => shell.window
  /\ shell.texture # None => shell.renderer
  /\ platform.composing => shell.text /\ shell.window
  /\ Running => /\ shell.renderer /\ shell.texture = Shows(shell.surface)
                /\ platform.composing = shell.text
  /\ Stage("gone") => shell.texture = None /\ ~platform.composing

(* Where in a queue the events of a set are, which of them is the last      *)
(* before the k-th place, and that none is.                                 *)
Positions(q, S)  == {i \in 1..Len(q) : q[i] \in S}
IsLast(S, i, k)  == i \in S /\ i < k /\ \A j \in S : j < k => j <= i
NoneBefore(S, k) == \A j \in S : k <= j

Quits      == {e \in Events : e.type = "quit"}
Turns      == {e \in Events : e.type \in {"key", "focus_lost", "quit"}}
Pointings    == {e \in Events : e.type \in {"press", "move", "release"}}
Touches(f) == {e \in Events : /\ e.type \in {"finger_down", "finger_move", "finger_up"}
                              /\ e.id = f}

(* What is held once an event is handled, and what was held when the k-th   *)
(* happened (past the last: what is held by now).                           *)
Left(e)            == IF e.type = "key" THEN e.held ELSE "none"
Timed(q, k)        == k = Len(q) + 1 \/ ("held" \in DOMAIN q[k] /\ q[k].type # "key")
HeldAt(q, k, held) == IF k = Len(q) + 1 THEN held ELSE q[k].held
\* What is held follows from the modifiers and the events that turn them.
HeldFollows(q, modifiers, held) ==
  \A k \in 1..(Len(q) + 1) : Timed(q, k) /\ NoneBefore(Positions(q, Quits), k) =>
    /\ NoneBefore(Positions(q, Turns), k) => HeldAt(q, k, held) = modifiers
    /\ \A i \in 1..Len(q) : IsLast(Positions(q, Turns), i, k) => HeldAt(q, k, held) = Left(q[i])
(* What the shell has turned its modifiers to, and what still waits.        *)
HeldInv ==
  /\ Stage("built") => platform.queue = <<>>
  /\ Stage("loop") => HeldFollows(platform.queue, shell.modifiers, platform.keyboard)

(* A press or a release happens where the pointer event before it was, the  *)
(* last of which is where the pointer is; the delegate knows that place in  *)
(* the world, and so does a middle drag.                                    *)
Resting(q, k)     == k = Len(q) + 1 \/ q[k].type \in {"press", "release"}
PlaceAt(q, k, at) == IF k = Len(q) + 1 THEN at ELSE q[k].at
PlacesFollow(q, seen, at) ==
  \A k \in 1..(Len(q) + 1) : Resting(q, k) =>
    /\ NoneBefore(Positions(q, Pointings), k) => seen \in {None, PlaceAt(q, k, at)}
    /\ \A i \in 1..Len(q) : IsLast(Positions(q, Pointings), i, k) => PlaceAt(q, k, at) = q[i].at
(* As long as no event was dropped.                                         *)
PointerInv ==
  ~lost => /\ PlacesFollow(platform.queue, canvas.seen, platform.pointer)
           /\ canvas.middle # None => canvas.middle = canvas.seen
           /\ canvas.told # None => /\ canvas.seen # None
                                    /\ canvas.told = ToWorld(canvas.view, canvas.seen)

(* The last event of a finger that waits is where it is; without one, what  *)
(* is tracked is.                                                           *)
Lies(e) == IF e.type = "finger_up" THEN None ELSE e.at
FingersFollow(q, down) ==
  \A f \in FingerIds : \A i \in 1..Len(q) :
    IsLast(Positions(q, Touches(f)), i, Len(q) + 1) => down[f] = Lies(q[i])
FingersKnown(q, fingers, down) ==
  \A s \in 1..2 : fingers[s] # None /\ Positions(q, Touches(fingers[s].id)) = {} =>
    down[fingers[s].id] = fingers[s].at
(* Both, for the events that wait.                                          *)
FingerInv ==
  /\ FingersFollow(platform.queue, platform.down)
  /\ ~lost => FingersKnown(platform.queue, canvas.fingers, platform.down)

-----------------------------------------------------------------------------
(* The window: what happens at it *)

(* The platform as an event finds it: stamped with the keyboard and the     *)
(* place of the pointer as they have just become.                           *)
Stamped(e, p) ==
  /\ e \in Events /\ p \in PlatformSpace
  /\ p.queue = platform.queue /\ p.happened = platform.happened
  /\ p.composing = platform.composing
  /\ p.created = platform.created /\ p.destroyed = platform.destroyed
  /\ "held" \in DOMAIN e => e.held = p.keyboard
  /\ e.type = "focus_lost" => p.keyboard = "none"
  /\ e.type # "key" => p.keyboard = platform.keyboard
  /\ e.type \in {"press", "move", "release"} => e.at = p.pointer
  /\ e.type # "move" => p.pointer = platform.pointer
  /\ IF e.type \in {"finger_down", "finger_move", "finger_up"}
     THEN p.down = [platform.down EXCEPT ![e.id] = IF e.type = "finger_up" THEN None ELSE e.at]
     ELSE p.down = platform.down

(* Every event is one of Events, stamped.                                   *)
LEMMA UserStamps ==
  ASSUME ShellTyped, UserNext
  PROVE  \E e, p : Stamped(e, p) /\ Happens(e, p)
<1> USE DEF ShellTyped
<1>1. ASSUME NEW m \in Modifiers, ModifierTurns(m)
      PROVE  \E e, p : Stamped(e, p) /\ Happens(e, p)
  <2> DEFINE e == [type |-> "key", held |-> m, key |-> None]
             p == [platform EXCEPT !.keyboard = m]
  <2>1. e \in Events
    BY DEF Events
  <2>2. Stamped(e, p)
    BY <2>1 DEF Stamped, PlatformSpace
  <2> QED
    BY <1>1, <2>2 DEF ModifierTurns
<1>2. ASSUME NEW key \in Keys, KeyGoesDown(key)
      PROVE  \E e, p : Stamped(e, p) /\ Happens(e, p)
  <2> DEFINE e == [type |-> "key", held |-> platform.keyboard, key |-> key]
  <2>1. e \in Events
    BY DEF Events, PlatformSpace
  <2>2. Stamped(e, platform)
    BY <2>1 DEF Stamped, PlatformSpace
  <2> QED
    BY <1>2, <2>2 DEF KeyGoesDown
<1>3. ASSUME NEW x \in Points, PointerMoves(x)
      PROVE  \E e, p : Stamped(e, p) /\ Happens(e, p)
  <2> DEFINE e == [type |-> "move", at |-> x, held |-> platform.keyboard]
             p == [platform EXCEPT !.pointer = x]
  <2>1. e \in Events
    BY DEF Events, PlatformSpace
  <2>2. Stamped(e, p)
    BY <2>1 DEF Stamped, PlatformSpace
  <2> QED
    BY <1>3, <2>2 DEF PointerMoves
<1>4. ASSUME NEW b \in Buttons, NEW type \in {"press", "release"}, ButtonTurns(type, b)
      PROVE  \E e, p : Stamped(e, p) /\ Happens(e, p)
  <2> DEFINE e == [type |-> type, button |-> b, at |-> platform.pointer, held |-> platform.keyboard]
  <2>1. e \in Events
    BY DEF Events, PlatformSpace
  <2>2. Stamped(e, platform)
    BY <2>1 DEF Stamped, PlatformSpace
  <2> QED
    BY <1>4, <2>2 DEF ButtonTurns
<1>5. ASSUME NEW delta \in {-1, 1}, WheelTurns(delta)
      PROVE  \E e, p : Stamped(e, p) /\ Happens(e, p)
  <2> DEFINE e == [type |-> "wheel", delta |-> delta, at |-> platform.pointer, held |-> platform.keyboard]
  <2>1. e \in Events
    BY DEF Events, PlatformSpace
  <2>2. Stamped(e, platform)
    BY <2>1 DEF Stamped, PlatformSpace
  <2> QED
    BY <1>5, <2>2 DEF WheelTurns
<1>6. ASSUME NEW scale \in {-1, 1}, NEW focal \in Points \union {None}, Pinches(scale, focal)
      PROVE  \E e, p : Stamped(e, p) /\ Happens(e, p)
  <2> DEFINE e == [type |-> "pinch", scale |-> scale, focal |-> focal]
  <2>1. e \in Events
    BY DEF Events
  <2>2. Stamped(e, platform)
    BY <2>1 DEF Stamped, PlatformSpace
  <2> QED
    BY <1>6, <2>2 DEF Pinches
<1>7. ASSUME NEW f \in FingerIds, NEW x \in Points, FingerLands(f, x)
      PROVE  \E e, p : Stamped(e, p) /\ Happens(e, p)
  <2> DEFINE e == [type |-> IF platform.down[f] = None THEN "finger_down" ELSE "finger_move",
                   id |-> f, at |-> x]
             p == [platform EXCEPT !.down[f] = x]
  <2>1. e \in Events
    BY DEF Events
  <2>2. Stamped(e, p)
    BY <2>1 DEF Stamped, PlatformSpace
  <2> QED
    BY <1>7, <2>2 DEF FingerLands
<1>8. ASSUME NEW f \in FingerIds, FingerLifts(f)
      PROVE  \E e, p : Stamped(e, p) /\ Happens(e, p)
  <2> DEFINE e == [type |-> "finger_up", id |-> f]
             p == [platform EXCEPT !.down[f] = None]
  <2>1. e \in Events
    BY DEF Events
  <2>2. Stamped(e, p)
    BY <2>1 DEF Stamped, PlatformSpace
  <2> QED
    BY <1>8, <2>2 DEF FingerLifts
<1>9. ASSUME NEW w \in Widths, WindowResizes(w)
      PROVE  \E e, p : Stamped(e, p) /\ Happens(e, p)
  <2> DEFINE e == [type |-> "resized", width |-> w]
             p == [platform EXCEPT !.width = w]
  <2>1. e \in Events
    BY DEF Events
  <2>2. Stamped(e, p)
    BY <2>1 DEF Stamped, PlatformSpace
  <2> QED
    BY <1>9, <2>2 DEF WindowResizes
<1>10. CASE FocusGoes \/ CloseAsked
  <2>1. [type |-> "focus_lost"] \in Events /\ [type |-> "quit"] \in Events
    BY DEF Events
  <2>2. platform.keyboard = "none" => Stamped([type |-> "focus_lost"], platform)
    BY <2>1 DEF Stamped
  <2>3. Stamped([type |-> "quit"], platform)
    BY <2>1 DEF Stamped
  <2> QED
    BY <1>10, <2>2, <2>3 DEF FocusGoes, CloseAsked
<1> QED
  BY <1>1, <1>2, <1>3, <1>4, <1>5, <1>6, <1>7, <1>8, <1>9, <1>10 DEF UserNext, Buttons, Keys

(* What an event leaves in the queue, and what it leaves alone.             *)
LEMMA HappensStep ==
  ASSUME ShellTyped, NEW e, NEW p, Stamped(e, p), Happens(e, p)
  PROVE  /\ platform' \in PlatformSpace
         /\ platform'.queue = Append(platform.queue, e)
         /\ platform'.keyboard = p.keyboard /\ platform'.pointer = p.pointer
         /\ platform'.down = p.down /\ platform'.composing = platform.composing
         /\ platform'.created = platform.created /\ platform'.destroyed = platform.destroyed
         /\ Running /\ UNCHANGED <<canvas, shell, lost>>
<1>1. platform' = [p EXCEPT !.queue = Append(platform.queue, e),
                            !.happened = platform.happened + 1]
  BY DEF Stamped, Happens
<1>2. Append(platform.queue, e) \in Seq(Events) /\ platform.happened + 1 \in Int
  BY DEF ShellTyped, PlatformSpace, Stamped
<1>3. p \in PlatformSpace /\ p.composing = platform.composing
      /\ p.created = platform.created /\ p.destroyed = platform.destroyed
  BY DEF Stamped
<1>4. platform' \in PlatformSpace
  BY <1>1, <1>2, <1>3 DEF PlatformSpace
<1>5. /\ platform'.queue = Append(platform.queue, e)
      /\ platform'.keyboard = p.keyboard /\ platform'.pointer = p.pointer
      /\ platform'.down = p.down /\ platform'.composing = p.composing
      /\ platform'.created = p.created /\ platform'.destroyed = p.destroyed
  BY <1>1, <1>3 DEF PlatformSpace
<1> QED
  BY <1>3, <1>4, <1>5 DEF Happens

-----------------------------------------------------------------------------
(* The window: uploads, opening and closing *)

(* An upload that fails has destroyed what it created.                      *)
LEMMA FailedUpload ==
  ASSUME ShellTyped, NEW s, NEW u \in UploadFails(s)
  PROVE  /\ u[1] = shell
         /\ \E c, d \in Int : /\ u[2] = [platform EXCEPT !.created = c, !.destroyed = d]
                              /\ c - d = platform.created - platform.destroyed
<1>1. platform.created \in Int /\ platform.destroyed \in Int /\ platform \in PlatformSpace
  BY DEF ShellTyped, PlatformSpace
<1>2. CASE u = <<shell, platform>>
  <2>1. platform = [platform EXCEPT !.created = platform.created, !.destroyed = platform.destroyed]
    BY <1>1 DEF PlatformSpace
  <2> QED
    BY <1>1, <1>2, <2>1
<1>3. CASE u = <<shell, [platform EXCEPT !.created = @ + 1, !.destroyed = @ + 1]>>
  <2>1. u[2] = [platform EXCEPT !.created = platform.created + 1,
                                !.destroyed = platform.destroyed + 1]
    BY <1>3
  <2>2. /\ platform.created + 1 \in Int /\ platform.destroyed + 1 \in Int
        /\ (platform.created + 1) - (platform.destroyed + 1) = platform.created - platform.destroyed
    BY <1>1
  <2> QED
    BY <1>3, <2>1, <2>2
<1> QED
  BY <1>2, <1>3 DEF UploadFails

(* One that succeeds has destroyed the texture that was shown before.       *)
LEMMA DoneUpload ==
  ASSUME ShellTyped, ResourceInv, NEW s \in Surfaces
  PROVE  /\ Uploaded(s)[1] = [shell EXCEPT !.texture = Shows(s)]
         /\ Shows(s) \in Surfaces \union {None}
         /\ \E c, d \in Int : /\ Uploaded(s)[2] = [platform EXCEPT !.created = c, !.destroyed = d]
                              /\ c - d = (IF Shows(s) = None THEN 0 ELSE 1)
<1> DEFINE c == platform.created + (IF s = "empty" THEN 0 ELSE 1)
           d == platform.destroyed + (IF shell.texture = None THEN 0 ELSE 1)
<1>1. Shows(s) \in Surfaces \union {None} /\ (Shows(s) = None <=> s = "empty")
  BY WindowIsFormed DEF Shows
<1>2. Uploaded(s)[2] = [platform EXCEPT !.created = c, !.destroyed = d]
  BY DEF Uploaded
<1>3. platform.created \in Int /\ platform.destroyed \in Int
  BY DEF ShellTyped, PlatformSpace
<1>4. c \in Int /\ d \in Int /\ c - d = (IF Shows(s) = None THEN 0 ELSE 1)
  BY <1>1, <1>3 DEF ResourceInv
<1> HIDE DEF c, d
<1> QED
  BY <1>1, <1>2, <1>4 DEF Uploaded

(* Neither opening nor closing, nor the client, touches what waits, the     *)
(* keyboard, the pointer and the fingers.                                   *)
Quietly ==
  \/ \E loop \in BOOLEAN : OpenWindow(loop)
  \/ Drained \/ Deregister \/ Destroy \/ ClientNext
QuietlyKept ==
  /\ platform'.queue = platform.queue /\ platform'.keyboard = platform.keyboard
  /\ platform'.pointer = platform.pointer /\ platform'.down = platform.down
  /\ lost' = lost
  /\ canvas' = canvas \/ canvas' = OnViewportSizeChanged(platform.width)
  /\ shell'.stage = "built" => Stage("built")
  /\ shell'.stage = "loop" =>
       \/ Stage("built") /\ shell'.modifiers = platform.keyboard
       \/ Stage("loop") /\ shell'.modifiers = shell.modifiers

(* The window opens, or what was made on the way is destroyed again.        *)
LEMMA OpenStep ==
  ASSUME ShellTyped, ResourceInv, NEW loop \in BOOLEAN, OpenWindow(loop)
  PROVE  ShellTyped' /\ ResourceInv' /\ QuietlyKept
<1>1. /\ shell.surface \in Surfaces /\ shell.surface # "invalid" /\ shell.stage = "built"
      /\ shell.texture = None /\ platform.keyboard \in Modifiers
      /\ platform.created - platform.destroyed = 0 /\ shell.text \in BOOLEAN
  BY DEF ShellTyped, OpenWindow, Stage, ResourceInv, ShellSpace, PlatformSpace
<1>2. CASE Opened(loop)
  <2>1. PICK c \in Int, d \in Int :
            /\ Uploaded(shell.surface)[2] = [platform EXCEPT !.created = c, !.destroyed = d]
            /\ c - d = (IF Shows(shell.surface) = None THEN 0 ELSE 1)
    BY <1>1, DoneUpload
  <2>2. /\ shell' = [shell EXCEPT !.texture = Shows(shell.surface),
                       !.stage = IF loop THEN "loop" ELSE "drain", !.window = TRUE,
                       !.renderer = TRUE, !.modifiers = platform.keyboard]
        /\ Shows(shell.surface) \in Surfaces \union {None}
    BY <1>1, <1>2, DoneUpload DEF Opened
  <2>3. platform' = [platform EXCEPT !.created = c, !.destroyed = d, !.composing = shell.text]
    BY <1>2, <2>1 DEF Opened
  <2>4. ShellTyped'
    BY <1>1, <1>2, <2>2, <2>3 DEF ShellTyped, OpenWindow, ShellSpace, PlatformSpace
  <2>5. ResourceInv'
    BY <1>1, <2>1, <2>2, <2>3 DEF ShellTyped, ResourceInv, Stage, Running, ShellSpace, PlatformSpace
  <2>6. QuietlyKept
    BY <1>1, <1>2, <2>2, <2>3 DEF ShellTyped, OpenWindow, Opened, QuietlyKept, Stage, ShellSpace, PlatformSpace
  <2> QED
    BY <2>4, <2>5, <2>6
<1>3. CASE OpenStops
  <2>1. PICK window \in BOOLEAN, renderer \in BOOLEAN, composing \in BOOLEAN, scaled \in BOOLEAN :
          /\ scaled => composing = shell.text
          /\ composing => shell.text /\ renderer
          /\ scaled => renderer
          /\ renderer => window
          /\ \E uploaded \in (IF scaled THEN UploadFails(shell.surface) ELSE {<<shell, platform>>}) :
               /\ shell' = [uploaded[1] EXCEPT !.stage = "returned", !.window = window,
                              !.renderer = renderer,
                              !.modifiers = IF scaled THEN platform.keyboard ELSE @]
               /\ platform' = [uploaded[2] EXCEPT !.composing = composing]
          /\ canvas' = IF scaled THEN OnViewportSizeChanged(platform.width) ELSE canvas
    BY <1>3 DEF OpenStops
  <2>2. PICK u \in (IF scaled THEN UploadFails(shell.surface) ELSE {<<shell, platform>>}) :
               /\ shell' = [u[1] EXCEPT !.stage = "returned", !.window = window,
                              !.renderer = renderer,
                              !.modifiers = IF scaled THEN platform.keyboard ELSE @]
               /\ platform' = [u[2] EXCEPT !.composing = composing]
    BY <2>1
  <2>3. u \in UploadFails(shell.surface)
    BY <2>2 DEF UploadFails
  <2>4. PICK c \in Int, d \in Int :
            /\ u[2] = [platform EXCEPT !.created = c, !.destroyed = d]
            /\ c - d = platform.created - platform.destroyed
    BY <2>3, FailedUpload
  <2>5. PICK m \in Modifiers : shell' = [shell EXCEPT !.stage = "returned", !.window = window,
                                           !.renderer = renderer, !.modifiers = m]
    <3>1. u[1] = shell
      BY <2>3, FailedUpload
    <3> QED
      BY <1>1, <2>2, <3>1 DEF ShellTyped, ShellSpace
  <2>6. platform' = [platform EXCEPT !.created = c, !.destroyed = d, !.composing = composing]
    BY <2>2, <2>4
  <2>7. ShellTyped'
    BY <1>1, <2>5, <2>6 DEF ShellTyped, OpenWindow, ShellSpace, PlatformSpace
  <2>8. ResourceInv'
    BY <1>1, <2>1, <2>4, <2>5, <2>6 DEF ShellTyped, ResourceInv, Stage, Running, ShellSpace, PlatformSpace
  <2>9. QuietlyKept
    BY <1>1, <2>1, <2>5, <2>6 DEF ShellTyped, OpenWindow, QuietlyKept, Stage, ShellSpace, PlatformSpace
  <2> QED
    BY <2>7, <2>8, <2>9
<1> QED
  BY <1>2, <1>3 DEF OpenWindow

(* A new surface is uploaded, kept for later or refused.                    *)
LEMMA SurfaceStep ==
  ASSUME ShellTyped, ResourceInv, NEW s \in Surfaces, SetNotationSurface(s)
  PROVE  ShellTyped' /\ ResourceInv' /\ QuietlyKept
<1>1. CASE UNCHANGED <<shell, platform>>
  BY <1>1 DEF ShellTyped, SetNotationSurface, ResourceInv, QuietlyKept, Stage, Running
<1>2. CASE IsValidSurface(s) /\ ~shell.renderer /\ shell' = [shell EXCEPT !.surface = s] /\ UNCHANGED platform
  <2>1. ShellTyped'
    BY <1>2 DEF ShellTyped, SetNotationSurface, ShellSpace
  <2>2. ResourceInv'
    BY <1>2 DEF ShellTyped, ResourceInv, Stage, Running, ShellSpace, IsValidSurface
  <2>3. QuietlyKept
    BY <1>2 DEF ShellTyped, SetNotationSurface, QuietlyKept, Stage, ShellSpace
  <2> QED
    BY <2>1, <2>2, <2>3
<1>3. CASE /\ IsValidSurface(s) /\ shell.renderer
           /\ shell' = [Uploaded(s)[1] EXCEPT !.surface = s] /\ platform' = Uploaded(s)[2]
  <2>0. PICK c, d \in Int : /\ Uploaded(s)[2] = [platform EXCEPT !.created = c, !.destroyed = d]
                            /\ c - d = (IF Shows(s) = None THEN 0 ELSE 1)
    BY DoneUpload
  <2>1. /\ platform' = [platform EXCEPT !.created = c, !.destroyed = d]
        /\ c - d = (IF Shows(s) = None THEN 0 ELSE 1)
    BY <1>3, <2>0
  <2>2. /\ shell' = [shell EXCEPT !.texture = Shows(s), !.surface = s]
        /\ Shows(s) \in Surfaces \union {None}
    BY <1>3, DoneUpload
  <2>3. ShellTyped'
    <3>1. shell \in ShellSpace /\ platform \in PlatformSpace /\ lost \in BOOLEAN
      BY DEF ShellTyped
    <3>2. shell' \in ShellSpace
      BY <2>2, <3>1 DEF ShellSpace
    <3>3. platform' \in PlatformSpace
      BY <2>0, <2>1, <3>1 DEF PlatformSpace
    <3>4. lost' = lost
      BY DEF SetNotationSurface
    <3> QED BY <3>1, <3>2, <3>3, <3>4 DEF ShellTyped
  <2>4. ResourceInv'
    <3>1. /\ shell'.stage = shell.stage /\ shell'.window = shell.window /\ shell'.renderer = shell.renderer
          /\ shell'.text = shell.text /\ shell'.texture = Shows(s) /\ shell'.surface = s
      BY <2>2 DEF ShellTyped, ShellSpace
    <3>2. platform'.created = c /\ platform'.destroyed = d /\ platform'.composing = platform.composing
      BY <2>1 DEF ShellTyped, PlatformSpace
    <3>3. platform'.created - platform'.destroyed = (IF shell'.texture = None THEN 0 ELSE 1)
      BY <2>1, <3>1, <3>2
    <3>4. shell.renderer /\ shell.window /\ s # "invalid" /\ ~Stage("built")
      BY <1>3 DEF ResourceInv, IsValidSurface
    <3>5. Stage("gone") => FALSE
      BY <3>4 DEF ShellTyped, SetNotationSurface, Stage, Running, ResourceInv
    <3> QED
      BY <3>1, <3>2, <3>3, <3>4, <3>5 DEF ResourceInv, Stage, Running
  <2>5. QuietlyKept
    BY <2>1, <2>2 DEF ShellTyped, SetNotationSurface, QuietlyKept, Stage, ShellSpace, PlatformSpace
  <2> QED
    BY <2>3, <2>4, <2>5
<1>4. ASSUME NEW u \in UploadFails(s), shell' = u[1], platform' = u[2]
      PROVE  ShellTyped' /\ ResourceInv' /\ QuietlyKept
  <2>0. PICK c \in Int, d \in Int :
            /\ u[2] = [platform EXCEPT !.created = c, !.destroyed = d]
            /\ c - d = platform.created - platform.destroyed
    BY FailedUpload
  <2>1. platform' = [platform EXCEPT !.created = c, !.destroyed = d]
    BY <1>4, <2>0
  <2>2. shell' = shell
    BY <1>4, FailedUpload
  <2>3. ShellTyped'
    BY <2>1, <2>2 DEF ShellTyped, SetNotationSurface, PlatformSpace
  <2>4. ResourceInv'
    BY <2>0, <2>1, <2>2 DEF ShellTyped, ResourceInv, Stage, Running, PlatformSpace
  <2>5. QuietlyKept
    BY <2>1, <2>2 DEF ShellTyped, SetNotationSurface, QuietlyKept, Stage, PlatformSpace
  <2> QED
    BY <2>3, <2>4, <2>5
<1> QED
  BY <1>1, <1>2, <1>3, <1>4 DEF SetNotationSurface

(* All that is neither an event that happens nor one that is handled.       *)
LEMMA QuietStep ==
  ASSUME ShellTyped, ResourceInv, Quietly
  PROVE  ShellTyped' /\ ResourceInv' /\ QuietlyKept
<1> USE DEF ShellTyped
<1>1. CASE \E loop \in BOOLEAN : OpenWindow(loop)
  BY <1>1, OpenStep
<1>2. CASE \E s \in Surfaces : SetNotationSurface(s)
  BY <1>2, SurfaceStep
<1>3. ASSUME NEW active \in BOOLEAN, SetTextInputActive(active)
      PROVE  ShellTyped' /\ ResourceInv' /\ QuietlyKept
  <2>1. CASE UNCHANGED <<shell, platform>>
    BY <1>3, <2>1 DEF SetTextInputActive, ResourceInv, QuietlyKept, Stage, Running
  <2>2. CASE /\ shell' = [shell EXCEPT !.text = active]
             /\ platform' = [platform EXCEPT !.composing = active /\ shell.window]
    <3>1. ShellTyped'
      BY <1>3, <2>2 DEF SetTextInputActive, ShellSpace, PlatformSpace
    <3>2. ResourceInv'
      BY <1>3, <2>2 DEF SetTextInputActive, ResourceInv, Stage, Running, ShellSpace, PlatformSpace
    <3>3. QuietlyKept
      BY <1>3, <2>2 DEF SetTextInputActive, QuietlyKept, Stage, ShellSpace, PlatformSpace
    <3> QED
      BY <3>1, <3>2, <3>3
  <2> QED
    BY <1>3, <2>1, <2>2 DEF SetTextInputActive
<1>4. CASE Drained
  <2>1. ShellTyped'
    BY <1>4 DEF Drained, ShellSpace
  <2>2. ResourceInv'
    BY <1>4 DEF Drained, ResourceInv, Stage, Running, ShellSpace
  <2>3. QuietlyKept
    BY <1>4 DEF Drained, QuietlyKept, Stage, ShellSpace
  <2> QED
    BY <2>1, <2>2, <2>3
<1>5. CASE Deregister
  <2>1. platform.composing \in BOOLEAN /\ (platform.composing => shell.text /\ shell.window)
    BY DEF PlatformSpace, ResourceInv
  <2>2. platform' = [platform EXCEPT !.composing = FALSE]
    BY <1>5, <2>1 DEF Deregister
  <2>3. ShellTyped'
    BY <1>5, <2>2 DEF Deregister, ShellSpace, PlatformSpace
  <2>4. ResourceInv'
    BY <1>5, <2>2 DEF Deregister, ResourceInv, Stage, Running, ShellSpace, PlatformSpace
  <2>5. QuietlyKept
    BY <1>5, <2>2 DEF Deregister, QuietlyKept, Stage, ShellSpace, PlatformSpace
  <2> QED
    BY <2>3, <2>4, <2>5
<1>6. CASE Destroy
  <2>1. platform.composing \in BOOLEAN /\ (platform.composing => shell.text /\ shell.window)
    BY DEF PlatformSpace, ResourceInv
  <2>2. PICK d \in Int : /\ platform.created - d = 0
                         /\ platform' = [platform EXCEPT !.composing = FALSE, !.destroyed = d]
    <3> DEFINE d == platform.destroyed + (IF shell.texture = None THEN 0 ELSE 1)
    <3>1. d \in Int /\ platform.created - d = 0
      BY DEF PlatformSpace, ResourceInv
    <3>2. platform' = [platform EXCEPT !.composing = FALSE, !.destroyed = d]
      BY <1>6, <2>1 DEF Destroy
    <3> HIDE DEF d
    <3> QED
      BY <3>1, <3>2
  <2>3. ShellTyped'
    BY <1>6, <2>2 DEF Destroy, ShellSpace, PlatformSpace
  <2>4. ResourceInv'
    BY <1>6, <2>2 DEF Destroy, ResourceInv, Stage, Running, ShellSpace, PlatformSpace
  <2>5. QuietlyKept
    BY <1>6, <2>2 DEF Destroy, QuietlyKept, Stage, ShellSpace, PlatformSpace
  <2> QED
    BY <2>3, <2>4, <2>5
<1> QED
  BY <1>1, <1>2, <1>3, <1>4, <1>5, <1>6 DEF Quietly, ClientNext

-----------------------------------------------------------------------------
(* The window: an event's turn *)

(* Whatever becomes of an event, it leaves the queue, and the loop goes on  *)
(* unless it was asked to close.                                            *)
HandledTo(stage) ==
  /\ Running /\ platform.queue # <<>>
  /\ platform' = [platform EXCEPT !.queue = Tail(platform.queue)]
  /\ shell' = [shell EXCEPT !.stage = stage, !.modifiers = OrderedModifiers]
  /\ stage = "loop" => Stage("loop") /\ Event.type # "quit"
  /\ stage = "drain" => Stage("drain")

(* A dispatched, a dropped and a resize event each end so.                  *)
LEMMA TurnTaken ==
  ASSUME DispatchEvent \/ DropEvent \/ ResizeEvent
  PROVE  \E stage \in {"loop", "drain", "returned"} : HandledTo(stage)
<1>1. ASSUME NEW stage \in AfterEvent, Handle(stage)
      PROVE  HandledTo(stage) /\ stage \in {"loop", "drain", "returned"}
  BY <1>1 DEF Handle, HandledTo, AfterEvent, Running, Stage
<1>2. CASE Handle("returned")
  BY <1>2 DEF Handle, HandledTo
<1> QED
  BY <1>1, <1>2 DEF DispatchEvent, DropEvent, ResizeEvent

(* The event whose turn it is, and the queue it leaves.                     *)
LEMMA FirstEvent ==
  ASSUME ShellTyped, platform.queue # <<>>
  PROVE  /\ platform.queue \in Seq(Events) /\ Event = platform.queue[1] /\ Event \in Events
         /\ Tail(platform.queue) \in Seq(Events)
         /\ Len(Tail(platform.queue)) = Len(platform.queue) - 1
         /\ \A i \in 1..Len(Tail(platform.queue)) : Tail(platform.queue)[i] = platform.queue[i + 1]
  BY DEF ShellTyped, PlatformSpace, Event

(* An event that is handled creates and destroys nothing.                   *)
LEMMA TurnStep ==
  ASSUME ShellTyped, ResourceInv, NEW stage \in {"loop", "drain", "returned"}, HandledTo(stage),
         UNCHANGED lost \/ lost' = TRUE
  PROVE  ShellTyped' /\ ResourceInv'
<1>1. OrderedModifiers \in Modifiers
  BY FirstEvent DEF HandledTo, OrderedModifiers, Events, Modifiers, ShellTyped, ShellSpace
<1>2. ShellTyped'
  <2>1. Tail(platform.queue) \in Seq(Events)
    BY FirstEvent DEF HandledTo
  <2> QED
    BY <1>1, <2>1 DEF HandledTo, ShellTyped, ShellSpace, PlatformSpace
<1>3. ResourceInv'
  BY DEF HandledTo, ResourceInv, ShellTyped, ShellSpace, PlatformSpace, Stage, Running
<1> QED
  BY <1>2, <1>3

(* Nor does one that happens.                                               *)
LEMMA UserStep ==
  ASSUME ShellTyped, ResourceInv, NEW e, NEW p, Stamped(e, p), Happens(e, p)
  PROVE  ShellTyped' /\ ResourceInv'
<1>1. /\ platform' \in PlatformSpace /\ UNCHANGED <<shell, lost>>
      /\ platform'.created = platform.created /\ platform'.destroyed = platform.destroyed
      /\ platform'.composing = platform.composing
  BY HappensStep
<1> QED
  BY <1>1 DEF ShellTyped, ResourceInv, Stage, Running

(* A step is an event that happens, one that is handled, or quiet.          *)
LEMMA ShellCases ==
  ASSUME ShellTyped, ShellNext
  PROVE  \/ \E e, p : Stamped(e, p) /\ Happens(e, p)
         \/ DispatchEvent \/ DropEvent \/ ResizeEvent
         \/ Quietly
  BY UserStamps DEF ShellNext, LoopNext, Quietly

(* Every step keeps what is open and what was made in step.                 *)
LEMMA ResourceStep ==
  ASSUME ShellTyped, ResourceInv, [ShellNext]_shellVars
  PROVE  ShellTyped' /\ ResourceInv'
<1>1. CASE UNCHANGED shellVars
  BY <1>1 DEF shellVars, ShellTyped, ResourceInv, Stage, Running
<1>2. CASE DispatchEvent \/ DropEvent \/ ResizeEvent
  <2>1. UNCHANGED lost \/ lost' = TRUE
    BY <1>2 DEF DispatchEvent, DropEvent, ResizeEvent
  <2> QED
    BY <1>2, <2>1, TurnTaken, TurnStep
<1>3. CASE \E e, p : Stamped(e, p) /\ Happens(e, p)
  BY <1>3, UserStep
<1>4. CASE Quietly
  BY <1>4, QuietStep
<1> QED
  BY <1>1, <1>2, <1>3, <1>4, ShellCases

(* The window before it is opened.                                          *)
LEMMA ShellStarts ==
  ASSUME ShellInit
  PROVE  /\ ShellTyped /\ ResourceInv /\ platform.queue = <<>> /\ lost = FALSE
         /\ platform.down = [f \in FingerIds |-> None] /\ Stage("built")
         /\ \E focus : canvas = CanvasStart(focus)
<1>1. (CHOOSE x \in Points : TRUE) \in Points /\ (CHOOSE w \in Widths : TRUE) \in Widths
  BY WindowIsFormed
<1>2. PICK s \in Surfaces \ {"invalid"} : shell = ShellStart(s)
  BY DEF ShellInit
<1>3. PICK m \in Modifiers : platform = PlatformStart(m)
  BY DEF ShellInit
<1>4. <<>> \in Seq(Events)
  OBVIOUS
<1>5. platform \in PlatformSpace
  BY <1>1, <1>3, <1>4 DEF PlatformStart, PlatformSpace
<1>6. shell \in ShellSpace
  BY <1>2 DEF ShellStart, ShellSpace, Modifiers
<1>7. ShellTyped
  BY <1>5, <1>6 DEF ShellTyped, ShellInit
<1>8. ResourceInv
  BY <1>2, <1>3 DEF ShellStart, PlatformStart, ResourceInv, Stage, Running
<1> QED
  BY <1>2, <1>3, <1>7, <1>8 DEF ShellStart, PlatformStart, Stage, ShellInit

(* At every point of the window's life, with any call of SDL failing, what  *)
(* exists and is composing is what the stage the window is at calls for.    *)
THEOREM ShellInductive == ShellSpec => [](ShellTyped /\ ResourceInv)
<1>1. ShellInit => ShellTyped /\ ResourceInv
  BY ShellStarts
<1>2. (ShellTyped /\ ResourceInv) /\ [ShellNext]_shellVars => (ShellTyped /\ ResourceInv)'
  BY ResourceStep
<1> QED
  BY <1>1, <1>2, PTL DEF ShellSpec

(* The texture shown is the only one that exists, none outlives the window, *)
(* and text input is stopped: for any surfaces, events and failures.        *)
THEOREM NothingIsLeaked == ShellSpec => []ResourcesAreKept
<1>1. ShellTyped /\ ResourceInv => ResourcesAreKept
  BY DEF ShellTyped, PlatformSpace, ResourceInv, ResourcesAreKept
<1> QED
  BY <1>1, ShellInductive, PTL

-----------------------------------------------------------------------------
(* The window: places in the queue *)

(* An event at the end changes nothing before it.                           *)
LEMMA QueueGrows ==
  ASSUME NEW q \in Seq(Events), NEW e \in Events, NEW S
  PROVE  LET r == Append(q, e)
             A == Positions(q, S)
             B == Positions(r, S)
             n == Len(q)
         IN  /\ Len(r) = n + 1 /\ r[n + 1] = e /\ \A i \in 1..n : r[i] = q[i]
             /\ \A k \in 1..(n + 1) : /\ NoneBefore(B, k) <=> NoneBefore(A, k)
                                      /\ \A i : IsLast(B, i, k) <=> IsLast(A, i, k)
             /\ IF e \in S
                THEN ~NoneBefore(B, n + 2) /\ \A i : IsLast(B, i, n + 2) => i = n + 1
                ELSE /\ NoneBefore(B, n + 2) => NoneBefore(A, n + 1)
                     /\ \A i : IsLast(B, i, n + 2) => IsLast(A, i, n + 1)
<1> DEFINE r == Append(q, e)
           A == Positions(q, S)
           B == Positions(r, S)
           n == Len(q)
<1>1. n \in Nat /\ Len(r) = n + 1 /\ r[n + 1] = e /\ \A i \in 1..n : r[i] = q[i]
  OBVIOUS
<1>2. /\ A \subseteq 1..n /\ B \subseteq 1..(n + 1)
      /\ \A i \in 1..n : i \in B <=> i \in A
      /\ n + 1 \in B <=> e \in S
  BY <1>1 DEF Positions
<1> HIDE DEF r, A, B, n
<1>3. ASSUME NEW k \in 1..(n + 1)
      PROVE  NoneBefore(B, k) <=> NoneBefore(A, k)
  BY <1>1, <1>2 DEF NoneBefore
<1>4. ASSUME NEW k \in 1..(n + 1), NEW i
      PROVE  IsLast(B, i, k) <=> IsLast(A, i, k)
  <2>1. \A j \in A : j \in 1..n /\ j \in B
    BY <1>1, <1>2
  <2>2. \A j \in B : j < k => j \in 1..n /\ j \in A
    BY <1>1, <1>2
  <2> QED
    BY <2>1, <2>2 DEF IsLast
<1>5. CASE e \in S
  <2>1. ~NoneBefore(B, n + 2)
    BY <1>1, <1>2, <1>5 DEF NoneBefore
  <2>2. \A i : IsLast(B, i, n + 2) => i = n + 1
    BY <1>1, <1>2, <1>5 DEF IsLast
  <2> QED
    BY <1>1, <1>3, <1>4, <1>5, <2>1, <2>2 DEF r, A, B, n
<1>6. CASE e \notin S
  <2>1. NoneBefore(B, n + 2) => NoneBefore(A, n + 1)
    BY <1>1, <1>2, <1>6 DEF NoneBefore
  <2>2. \A i : IsLast(B, i, n + 2) => IsLast(A, i, n + 1)
    BY <1>1, <1>2, <1>6 DEF IsLast
  <2> QED
    BY <1>1, <1>3, <1>4, <1>6, <2>1, <2>2 DEF r, A, B, n
<1> QED
  BY <1>5, <1>6

(* Without the first, every place is one less.                              *)
LEMMA QueueShifts ==
  ASSUME NEW q \in Seq(Events), q # <<>>, NEW S
  PROVE  LET r == Tail(q)
             A == Positions(q, S)
             B == Positions(r, S)
             n == Len(r)
         IN  /\ n \in Nat /\ Len(q) = n + 1 /\ \A i \in 1..n : r[i] = q[i + 1]
             /\ \A i \in 1..n : i \in B <=> i + 1 \in A
             /\ 1 \in A <=> q[1] \in S
             /\ \A k \in 1..(n + 1) :
                  /\ \A i : IsLast(B, i, k) => i \in 1..n /\ IsLast(A, i + 1, k + 1)
                  /\ NoneBefore(B, k) =>
                       IF q[1] \in S THEN IsLast(A, 1, k + 1) ELSE NoneBefore(A, k + 1)
<1> DEFINE r == Tail(q)
           A == Positions(q, S)
           B == Positions(r, S)
           n == Len(r)
<1>1. n \in Nat /\ Len(q) = n + 1 /\ \A i \in 1..n : r[i] = q[i + 1]
  OBVIOUS
<1>2. /\ A \subseteq 1..(n + 1) /\ B \subseteq 1..n
      /\ \A i \in 1..n : i \in B <=> i + 1 \in A
      /\ 1 \in A <=> q[1] \in S
  BY <1>1 DEF Positions
<1> HIDE DEF r, A, B, n
<1>3. \A j \in A : j = 1 \/ (j - 1 \in 1..n /\ j - 1 \in B /\ (j - 1) + 1 = j)
  BY <1>1, <1>2
<1>4. ASSUME NEW k \in 1..(n + 1), NEW i, IsLast(B, i, k)
      PROVE  i \in 1..n /\ IsLast(A, i + 1, k + 1)
  BY <1>1, <1>2, <1>3, <1>4 DEF IsLast
<1>5. ASSUME NEW k \in 1..(n + 1), NoneBefore(B, k)
      PROVE  IF q[1] \in S THEN IsLast(A, 1, k + 1) ELSE NoneBefore(A, k + 1)
  <2>1. \A j \in A : j = 1 \/ k + 1 <= j
    BY <1>1, <1>2, <1>3, <1>5 DEF NoneBefore
  <2>2. CASE q[1] \in S
    BY <1>1, <1>2, <2>1, <2>2 DEF IsLast
  <2>3. CASE q[1] \notin S
    BY <1>1, <1>2, <2>1, <2>3 DEF NoneBefore
  <2> QED
    BY <2>2, <2>3
<1> QED
  BY <1>1, <1>2, <1>4, <1>5 DEF r, A, B, n

-----------------------------------------------------------------------------
(* The window: events are handled with what was held *)

(* An event is stamped with what is held as it happens.                     *)
LEMMA HeldGrows ==
  ASSUME NEW q \in Seq(Events), NEW e \in Events, NEW m, NEW was, NEW held,
         HeldFollows(q, m, was),
         "held" \in DOMAIN e => e.held = held, e.type = "focus_lost" => held = "none",
         e.type # "key" => held = was
  PROVE  HeldFollows(Append(q, e), m, held)
<1> DEFINE r == Append(q, e)
           n == Len(q)
<1>1. n \in Nat /\ Len(r) = n + 1 /\ r[n + 1] = e /\ \A i \in 1..n : r[i] = q[i]
  BY QueueGrows
<1>2. \A k \in 1..(n + 1) :
        /\ NoneBefore(Positions(r, Quits), k) <=> NoneBefore(Positions(q, Quits), k)
        /\ NoneBefore(Positions(r, Turns), k) <=> NoneBefore(Positions(q, Turns), k)
        /\ \A i : IsLast(Positions(r, Turns), i, k) <=> IsLast(Positions(q, Turns), i, k)
  BY QueueGrows
<1>3. /\ NoneBefore(Positions(r, Quits), n + 2) =>
           e \notin Quits /\ NoneBefore(Positions(q, Quits), n + 1)
      /\ e \in Turns => /\ ~NoneBefore(Positions(r, Turns), n + 2)
                        /\ \A i : IsLast(Positions(r, Turns), i, n + 2) => i = n + 1
      /\ e \notin Turns =>
           /\ NoneBefore(Positions(r, Turns), n + 2) => NoneBefore(Positions(q, Turns), n + 1)
           /\ \A i : IsLast(Positions(r, Turns), i, n + 2) => IsLast(Positions(q, Turns), i, n + 1)
  <2>1. NoneBefore(Positions(r, Quits), n + 2) =>
          e \notin Quits /\ NoneBefore(Positions(q, Quits), n + 1)
    BY QueueGrows
  <2> QED
    BY <2>1, QueueGrows
<1> HIDE DEF r, n
<1>4. SUFFICES ASSUME NEW k \in 1..(n + 2), Timed(r, k), NoneBefore(Positions(r, Quits), k)
               PROVE  /\ NoneBefore(Positions(r, Turns), k) => HeldAt(r, k, held) = m
                      /\ \A i \in 1..(n + 1) : IsLast(Positions(r, Turns), i, k) =>
                           HeldAt(r, k, held) = Left(r[i])
  BY <1>1 DEF HeldFollows, r
<1>5. \A l \in 1..(n + 1) : Timed(q, l) /\ NoneBefore(Positions(q, Quits), l) =>
        /\ NoneBefore(Positions(q, Turns), l) => HeldAt(q, l, was) = m
        /\ \A i \in 1..n : IsLast(Positions(q, Turns), i, l) => HeldAt(q, l, was) = Left(q[i])
  BY DEF HeldFollows, n
<1>6. \A i, l : IsLast(Positions(q, Turns), i, l) => i \in 1..n
  BY DEF IsLast, Positions, n
<1>7. Timed(q, n + 1) /\ HeldAt(q, n + 1, was) = was
  BY DEF Timed, HeldAt, n
<1>8. CASE k \in 1..n
  <2>1. Timed(q, k) /\ HeldAt(r, k, held) = HeldAt(q, k, was)
    BY <1>1, <1>4, <1>8 DEF Timed, HeldAt, n
  <2>2. k \in 1..(n + 1) /\ NoneBefore(Positions(q, Quits), k)
    BY <1>1, <1>2, <1>4, <1>8
  <2>3. /\ NoneBefore(Positions(q, Turns), k) => HeldAt(q, k, was) = m
        /\ \A i \in 1..n : IsLast(Positions(q, Turns), i, k) => HeldAt(q, k, was) = Left(q[i])
    BY <1>5, <2>1, <2>2
  <2> QED
    BY <1>1, <1>2, <1>6, <2>1, <2>2, <2>3
<1>9. CASE k = n + 1
  <2>1. HeldAt(r, k, held) = was
    BY <1>1, <1>4, <1>9 DEF Timed, HeldAt
  <2> QED
    BY <1>1, <1>2, <1>4, <1>5, <1>6, <1>7, <1>9, <2>1
<1>10. CASE k = n + 2
  <2>1. HeldAt(r, k, held) = held
    BY <1>1, <1>10 DEF HeldAt
  <2>2. e \notin Quits /\ NoneBefore(Positions(q, Quits), n + 1)
    BY <1>3, <1>4, <1>10
  <2>3. CASE e \in Turns
    <3>1. Left(e) = held
      BY <2>2, <2>3 DEF Turns, Quits, Left, Events
    <3> QED
      BY <1>1, <1>3, <1>10, <2>1, <2>3, <3>1
  <2>4. CASE e \notin Turns
    <3>1. held = was
      BY <2>4 DEF Turns
    <3> QED
      BY <1>1, <1>3, <1>5, <1>6, <1>7, <1>10, <2>1, <2>2, <2>4, <3>1
  <2> QED
    BY <2>3, <2>4
<1> QED
  BY <1>1, <1>8, <1>9, <1>10

(* Handled, an event has turned the modifiers, or left them.                *)
LEMMA HeldShifts ==
  ASSUME NEW q \in Seq(Events), q # <<>>, NEW m, NEW held, HeldFollows(q, m, held),
         q[1] \notin Quits
  PROVE  HeldFollows(Tail(q), IF q[1] \in Turns THEN Left(q[1]) ELSE m, held)
<1> DEFINE r == Tail(q)
           n == Len(r)
<1>1. n \in Nat /\ Len(q) = n + 1 /\ \A i \in 1..n : r[i] = q[i + 1]
  BY QueueShifts
<1>2. \A k \in 1..(n + 1) :
        /\ NoneBefore(Positions(r, Quits), k) => NoneBefore(Positions(q, Quits), k + 1)
        /\ NoneBefore(Positions(r, Turns), k) =>
             IF q[1] \in Turns THEN IsLast(Positions(q, Turns), 1, k + 1)
                               ELSE NoneBefore(Positions(q, Turns), k + 1)
        /\ \A i : IsLast(Positions(r, Turns), i, k) =>
             i \in 1..n /\ IsLast(Positions(q, Turns), i + 1, k + 1)
  BY QueueShifts
<1> HIDE DEF r, n
<1>3. SUFFICES ASSUME NEW k \in 1..(n + 1), Timed(r, k), NoneBefore(Positions(r, Quits), k)
               PROVE  /\ NoneBefore(Positions(r, Turns), k) =>
                           HeldAt(r, k, held) = IF q[1] \in Turns THEN Left(q[1]) ELSE m
                      /\ \A i \in 1..n : IsLast(Positions(r, Turns), i, k) =>
                           HeldAt(r, k, held) = Left(r[i])
  BY <1>1 DEF HeldFollows, r, n
<1>4. k + 1 \in 1..(n + 2) /\ Timed(q, k + 1) /\ HeldAt(q, k + 1, held) = HeldAt(r, k, held)
  BY <1>1, <1>3 DEF Timed, HeldAt, n
<1>5. /\ NoneBefore(Positions(q, Turns), k + 1) => HeldAt(q, k + 1, held) = m
      /\ \A i \in 1..(n + 1) : IsLast(Positions(q, Turns), i, k + 1) =>
           HeldAt(q, k + 1, held) = Left(q[i])
  <2>1. NoneBefore(Positions(q, Quits), k + 1)
    BY <1>2, <1>3
  <2> QED
    BY <1>1, <1>4, <2>1 DEF HeldFollows
<1>6. NoneBefore(Positions(r, Turns), k) =>
        HeldAt(r, k, held) = IF q[1] \in Turns THEN Left(q[1]) ELSE m
  BY <1>1, <1>2, <1>4, <1>5
<1>7. ASSUME NEW i \in 1..n, IsLast(Positions(r, Turns), i, k)
      PROVE  HeldAt(r, k, held) = Left(r[i])
  <2>1. i + 1 \in 1..(n + 1) /\ IsLast(Positions(q, Turns), i + 1, k + 1) /\ r[i] = q[i + 1]
    BY <1>1, <1>2, <1>7
  <2> QED
    BY <1>4, <1>5, <2>1
<1> QED
  BY <1>6, <1>7

(* What is held follows from the events that wait, after every step.        *)
LEMMA HeldStep ==
  ASSUME ShellTyped, ResourceInv, HeldInv, [ShellNext]_shellVars
  PROVE  HeldInv'
<1>1. CASE UNCHANGED shellVars
  BY <1>1 DEF shellVars, HeldInv, Stage
<1>2. ASSUME NEW e, NEW p, Stamped(e, p), Happens(e, p)
      PROVE  HeldInv'
  <2>1. /\ platform'.queue = Append(platform.queue, e) /\ platform'.keyboard = p.keyboard
        /\ Running /\ UNCHANGED shell
    BY <1>2, HappensStep
  <2>2. platform.queue \in Seq(Events) /\ e \in Events
    BY <1>2 DEF Stamped, ShellTyped, PlatformSpace
  <2>3. /\ "held" \in DOMAIN e => e.held = p.keyboard
        /\ e.type = "focus_lost" => p.keyboard = "none"
        /\ e.type # "key" => p.keyboard = platform.keyboard
    BY <1>2 DEF Stamped
  <2>4. HeldFollows(platform.queue, shell.modifiers, platform.keyboard) =>
          HeldFollows(Append(platform.queue, e), shell.modifiers, p.keyboard)
    BY <2>2, <2>3, HeldGrows
  <2> QED
    BY <2>1, <2>4 DEF HeldInv, Running, Stage
<1>3. CASE DispatchEvent \/ DropEvent \/ ResizeEvent
  <2>1. PICK stage \in {"loop", "drain", "returned"} : HandledTo(stage)
    BY <1>3, TurnTaken
  <2>2. /\ platform'.queue = Tail(platform.queue) /\ platform'.keyboard = platform.keyboard
        /\ shell'.stage = stage /\ shell'.modifiers = OrderedModifiers
    BY <2>1 DEF HandledTo, ShellTyped, ShellSpace, PlatformSpace
  <2>3. /\ platform.queue \in Seq(Events) /\ platform.queue # <<>>
        /\ Event = platform.queue[1] /\ Event \in Events
    BY <2>1, FirstEvent DEF HandledTo
  <2>4. OrderedModifiers = IF Event \in Turns THEN Left(Event) ELSE shell.modifiers
    BY <2>3 DEF OrderedModifiers, Turns, Left
  <2>5. CASE stage = "loop"
    <3>1. Stage("loop") /\ Event \notin Quits
      BY <2>1, <2>5 DEF HandledTo, Quits
    <3>2. HeldFollows(platform.queue, shell.modifiers, platform.keyboard)
      BY <3>1 DEF HeldInv
    <3>3. HeldFollows(Tail(platform.queue), OrderedModifiers, platform.keyboard)
      BY <2>3, <2>4, <3>1, <3>2, HeldShifts
    <3> QED
      BY <2>2, <2>5, <3>3 DEF HeldInv, Stage
  <2>6. CASE stage # "loop"
    BY <2>2, <2>6 DEF HeldInv, Stage
  <2> QED
    BY <2>5, <2>6
<1>4. CASE Quietly
  <2>1. QuietlyKept
    BY <1>4, QuietStep
  <2>2. CASE Stage("built") /\ shell'.stage = "loop"
    <3>1. platform'.queue = <<>> /\ platform'.keyboard = shell'.modifiers
      BY <2>1, <2>2 DEF QuietlyKept, HeldInv, Stage
    <3>2. HeldFollows(<<>>, shell'.modifiers, shell'.modifiers)
      BY DEF HeldFollows, HeldAt
    <3> QED
      BY <2>2, <3>1, <3>2 DEF HeldInv, Stage
  <2>3. CASE ~(Stage("built") /\ shell'.stage = "loop")
    BY <2>1, <2>3 DEF QuietlyKept, HeldInv, Stage
  <2> QED
    BY <2>2, <2>3
<1> QED
  BY <1>1, <1>2, <1>3, <1>4, ShellCases

(* The first event of the queue is handled with what was held then.         *)
LEMMA FirstIsAsHeld ==
  ASSUME ShellTyped, HeldInv
  PROVE  HandledAsHeld
<1> SUFFICES ASSUME Stage("loop"), platform.queue # <<>>, "held" \in DOMAIN Event
             PROVE  Event.held = OrderedModifiers
  BY DEF HandledAsHeld
<1> DEFINE q == platform.queue
<1>1. q \in Seq(Events) /\ Len(q) \in Nat \ {0} /\ Event = q[1] /\ Event \in Events
  BY FirstEvent
<1>2. CASE Event.type = "key"
  BY <1>2 DEF OrderedModifiers
<1>3. CASE Event.type # "key"
  <2>1. OrderedModifiers = shell.modifiers
    BY <1>1, <1>3 DEF OrderedModifiers, Events
  <2>2. NoneBefore(Positions(q, Quits), 1) /\ NoneBefore(Positions(q, Turns), 1)
    BY <1>1 DEF NoneBefore, Positions
  <2>3. Timed(q, 1) /\ HeldAt(q, 1, platform.keyboard) = Event.held
    BY <1>1, <1>3 DEF Timed, HeldAt
  <2>4. HeldFollows(q, shell.modifiers, platform.keyboard)
    BY DEF HeldInv
  <2> QED
    BY <1>1, <2>1, <2>2, <2>3, <2>4 DEF HeldFollows
<1> QED
  BY <1>2, <1>3

(* An event is handled with the modifiers held when it happened, however    *)
(* long the queue and however late its turn.                                *)
THEOREM EventsAreHandledAsHeld == ShellSpec => []HandledAsHeld
<1>1. ShellInit => HeldInv
  BY ShellStarts DEF HeldInv, Stage
<1>2. (ShellTyped /\ ResourceInv) /\ HeldInv /\ [ShellNext]_shellVars => HeldInv'
  BY HeldStep
<1>3. (ShellTyped /\ ResourceInv) /\ HeldInv => HandledAsHeld
  BY FirstIsAsHeld
<1> QED
  BY <1>1, <1>2, <1>3, ShellInductive, PTL DEF ShellSpec

-----------------------------------------------------------------------------
(* The window: what the handler makes of an event *)

(* All but pointer and fingers leave the pointer where it was last seen;    *)
(* where the view has moved, the delegate is told of that place no more.    *)
Unmoved(c) ==
  /\ Formed(c)
  /\ c.fingers = canvas.fingers /\ c.middle = canvas.middle /\ c.seen = canvas.seen
  /\ c.told = None \/ (c.told = canvas.told /\ c.view = canvas.view)

(* What changes the view alone.                                             *)
LEMMA Steering ==
  ASSUME CanvasTyped
  PROVE  /\ Unmoved(canvas)
         /\ \A k, focal : Unmoved(Steered(ZoomBy(canvas.view, k, focal)))
         /\ \A d : Unmoved(Steered(PanBy(canvas.view, d)))
         /\ \A w : Unmoved(OnViewportSizeChanged(w)) /\ OnViewportSizeChanged(w).view = canvas.view
<1>1. ASSUME NEW v, DOMAIN v = {"world", "viewport", "zoom"}
      PROVE  Unmoved(Steered(v))
  BY <1>1 DEF Steered, Viewing, Unmoved, Formed, CanvasTyped
<1>2. \A k, focal : DOMAIN ZoomBy(canvas.view, k, focal) = {"world", "viewport", "zoom"}
  BY DEF ZoomBy, CanvasTyped, Formed
<1>3. \A d : DOMAIN PanBy(canvas.view, d) = {"world", "viewport", "zoom"}
  BY DEF PanBy, CanvasTyped, Formed
<1>4. \A w : Unmoved(OnViewportSizeChanged(w)) /\ OnViewportSizeChanged(w).view = canvas.view
  BY DEF OnViewportSizeChanged, Unmoved, CanvasTyped, Formed
<1>5. Unmoved(canvas)
  BY DEF Unmoved, CanvasTyped
<1> QED
  BY <1>1, <1>2, <1>3, <1>4, <1>5

(* Wheel, pinch and keys change the view alone.                             *)
LEMMA SteeringEvents ==
  ASSUME CanvasTyped
  PROVE  /\ \A m, delta, at : Unmoved(OnWheel(m, delta, at))
         /\ \A scale, focal : Unmoved(OnPinch(scale, focal))
         /\ \A m, key : Unmoved(OnKeyPress(m, key))
<1>1. \A m, delta, at : Unmoved(OnWheel(m, delta, at))
  BY Steering DEF OnWheel
<1>2. \A scale, focal : Unmoved(OnPinch(scale, focal))
  BY Steering DEF OnPinch
<1>3. \A m, key : Unmoved(OnKeyPress(m, key))
  BY Steering DEF OnKeyPress
<1> QED
  BY <1>1, <1>2, <1>3

(* What a pointer event does: the delegate is told, or a middle drag        *)
(* begins or ends (with the pointer still), or moves the view along.        *)
Pointed(c, at, still) ==
  /\ Formed(c) /\ c.fingers = canvas.fingers /\ c.seen = at
  /\ \/ c.view = canvas.view /\ c.told = ToWorld(canvas.view, at) /\ c.middle = canvas.middle
     \/ still /\ c.view = canvas.view /\ c.told = canvas.told /\ c.middle \in {at, None}
     \/ /\ canvas.middle # None /\ c.middle = at /\ c.told = canvas.told
        /\ c.view = PanBy(canvas.view, at - canvas.middle)

(* Press, move and release are such events.                                 *)
LEMMA PointerEvents ==
  ASSUME CanvasTyped, NEW b, NEW at
  PROVE  /\ Pointed(OnPointerPress(b, at), at, TRUE)
         /\ Pointed(OnPointerRelease(b, at), at, TRUE)
         /\ Pointed(OnPointerMove(at), at, FALSE)
<1>1. DOMAIN PanBy(canvas.view, at - canvas.middle) = {"world", "viewport", "zoom"}
  BY DEF PanBy, CanvasTyped, Formed
<1>2. Pointed(Forwarded(at), at, TRUE) /\ Pointed(Forwarded(at), at, FALSE)
  BY DEF Forwarded, Pointed, CanvasTyped, Formed
<1>3. Pointed(OnPointerPress(b, at), at, TRUE)
  BY <1>2 DEF OnPointerPress, Pointed, CanvasTyped, Formed
<1>4. Pointed(OnPointerRelease(b, at), at, TRUE)
  BY <1>2 DEF OnPointerRelease, Pointed, CanvasTyped, Formed
<1>5. CASE canvas.middle = None
  BY <1>2, <1>3, <1>4, <1>5 DEF OnPointerMove
<1>6. CASE canvas.middle # None
  <2>1. Pointed(OnPointerMove(at), at, FALSE)
    BY <1>1, <1>6 DEF OnPointerMove, Viewing, Pointed, CanvasTyped, Formed
  <2> QED
    BY <1>3, <1>4, <2>1
<1> QED
  BY <1>5, <1>6

(* What becomes of the two slots.                                           *)
Fingered(e) ==
  CASE e.type = "finger_down" -> FingerDown(canvas.fingers, e.id, e.at)
    [] e.type = "finger_move" -> FingerMove(canvas.fingers, e.id, e.at)
    [] e.type = "finger_up"   -> FingerUp(canvas.fingers, e.id)
    [] OTHER                  -> canvas.fingers
Settled(c) ==
  /\ Formed(c) /\ c.fingers \in {Fingered(Event), NoFingers}
  /\ c.middle \in {canvas.middle, None} /\ c.seen = canvas.seen
  /\ c.told = None \/ (c.told = canvas.told /\ c.view = canvas.view)

(* What the dispatch of any event comes to for the canvas.                  *)
LEMMA Dispatching ==
  ASSUME CanvasTyped, Event \in Events
  PROVE  IF Event \in Pointings THEN Pointed(Dispatched, Event.at, Event.type # "move")
         ELSE Settled(Dispatched)
<1>1. CASE Event.type \in {"press", "move", "release"}
  <2>1. Event \in Pointings
    BY <1>1 DEF Pointings
  <2>2. CASE Event.type = "move"
    BY <2>1, <2>2, PointerEvents DEF Dispatched
  <2>3. CASE Event.type \in {"press", "release"}
    <3>1. Dispatched \in {OnPointerPress(Event.button, Event.at), OnPointerRelease(Event.button, Event.at)}
      BY <2>3 DEF Dispatched
    <3>2. Pointed(Dispatched, Event.at, TRUE)
      BY <3>1, PointerEvents
    <3>3. (Event.type # "move") = TRUE
      BY <2>3
    <3> QED
      BY <2>1, <3>2, <3>3
  <2> QED
    BY <1>1, <2>2, <2>3
<1>2. CASE Event.type \in {"wheel", "pinch", "key"}
  <2>1. Event \notin Pointings
    BY <1>2 DEF Pointings
  <2>2. Unmoved(Dispatched)
    BY <1>2, Steering, SteeringEvents DEF Dispatched
  <2>3. Fingered(Event) = canvas.fingers
    BY <1>2 DEF Fingered
  <2> QED
    BY <2>1, <2>2, <2>3 DEF Unmoved, Settled
<1>3. CASE Event.type \in {"finger_down", "finger_move", "finger_up"}
  <2>1. Event \notin Pointings
    BY <1>3 DEF Pointings
  <2>2. Dispatched = [canvas EXCEPT !.fingers = Fingered(Event)]
    BY <1>3 DEF Dispatched, Fingered
  <2>3. Settled(Dispatched)
    BY <2>2 DEF Settled, CanvasTyped, Formed
  <2> QED
    BY <2>1, <2>3
<1>4. CASE Event.type \in {"resized", "focus_lost", "quit"}
  <2>1. Event \notin Pointings
    BY <1>4 DEF Pointings
  <2>2. Dispatched \in {OnCancel, canvas}
    BY <1>4 DEF Dispatched
  <2>3. Fingered(Event) = canvas.fingers
    BY <1>4 DEF Fingered
  <2>4. Settled(OnCancel) /\ Settled(canvas)
    BY <2>3 DEF Settled, OnCancel, CanvasTyped, Formed
  <2> QED
    BY <2>1, <2>2, <2>4
<1> QED
  BY <1>1, <1>2, <1>3, <1>4 DEF Events

-----------------------------------------------------------------------------
(* The window: the two slots of the trackpad's fingers *)

(* The slot that a search of the two finds is one of those searched for.    *)
LEMMA FirstOfSlots ==
  ASSUME NEW S, S \subseteq {1, 2}, S # {}
  PROVE  FirstOf(S) \in S
<1>1. \E s \in S : \A t \in S : s <= t
  <2>1. CASE 1 \in S
    BY <2>1
  <2>2. CASE 1 \notin S
    <3>1. S = {2}
      BY <2>2
    <3> QED
      BY <3>1
  <2> QED
    BY <2>1, <2>2
<1> QED
  BY <1>1 DEF FirstOf

(* In g a finger is tracked as x says, or not at all; the others as before. *)
Tracks(g, fingers, id, x) ==
  /\ g \in Slots /\ Distinct(g)
  /\ \A s \in 1..2 : g[s] # None => IF g[s].id = id THEN g[s] = x ELSE g[s] = fingers[s]

(* One slot is given to a finger that no other tracks, or is cleared.       *)
LEMMA Replacing ==
  ASSUME NEW fingers \in Slots, Distinct(fingers), NEW t \in 1..2, NEW id,
         NEW x \in Finger \union {None}, x = None \/ x.id = id,
         \A s \in 1..2 : s # t /\ fingers[s] # None => fingers[s].id # id
  PROVE  Tracks([fingers EXCEPT ![t] = x], fingers, id, x)
<1> DEFINE g == [fingers EXCEPT ![t] = x]
<1>1. g \in Slots
  BY DEF Slots
<1>2. g[t] = x /\ \A s \in 1..2 : s # t => g[s] = fingers[s]
  BY DEF Slots
<1> HIDE DEF g
<1>3. Distinct(g)
  BY <1>2 DEF Distinct
<1>4. Tracks(g, fingers, id, x)
  BY <1>1, <1>2, <1>3 DEF Tracks
<1> QED
  BY <1>4 DEF g

(* A finger's own slot, or the first that is free.                          *)
LEMMA Tracking ==
  ASSUME NEW fingers \in Slots, Distinct(fingers), NEW id,
         NEW x \in Finger \union {None}, x = None \/ x.id = id
  PROVE  /\ SlotOf(fingers, id) # {} =>
              Tracks([fingers EXCEPT ![FirstOf(SlotOf(fingers, id))] = x], fingers, id, x)
         /\ SlotOf(fingers, id) = {} => Tracks(fingers, fingers, id, x)
         /\ SlotOf(fingers, id) = {} /\ FreeSlots(fingers) # {} =>
              Tracks([fingers EXCEPT ![FirstOf(FreeSlots(fingers))] = x], fingers, id, x)
<1>1. CASE SlotOf(fingers, id) # {}
  <2>1. PICK t : t = FirstOf(SlotOf(fingers, id))
    OBVIOUS
  <2>2. SlotOf(fingers, id) \subseteq {1, 2}
    BY DEF SlotOf
  <2>3. t \in SlotOf(fingers, id)
    BY <1>1, <2>1, <2>2, FirstOfSlots
  <2>4. t \in 1..2 /\ \A s \in 1..2 : s # t /\ fingers[s] # None => fingers[s].id # id
    BY <2>3 DEF SlotOf, Distinct
  <2>5. Tracks([fingers EXCEPT ![t] = x], fingers, id, x)
    BY <2>4, Replacing
  <2> QED
    BY <1>1, <2>1, <2>5
<1>2. CASE SlotOf(fingers, id) = {}
  <2>1. \A s \in 1..2 : fingers[s] # None => fingers[s].id # id
    BY <1>2 DEF SlotOf
  <2>2. Tracks(fingers, fingers, id, x)
    BY <2>1 DEF Tracks
  <2>3. ASSUME FreeSlots(fingers) # {}
        PROVE  Tracks([fingers EXCEPT ![FirstOf(FreeSlots(fingers))] = x], fingers, id, x)
    <3>1. PICK t : t = FirstOf(FreeSlots(fingers))
      OBVIOUS
    <3>2. FreeSlots(fingers) \subseteq {1, 2}
      BY DEF FreeSlots
    <3>3. t \in 1..2
      BY <2>3, <3>1, <3>2, FirstOfSlots
    <3>4. Tracks([fingers EXCEPT ![t] = x], fingers, id, x)
      BY <2>1, <3>3, Replacing
    <3> QED
      BY <3>1, <3>4
  <2> QED
    BY <1>2, <2>2, <2>3
<1> QED
  BY <1>1, <1>2

(* What the controller makes of a finger: it lies where it was put down or  *)
(* moved to, if it is tracked, and is not tracked once it is lifted.        *)
LEMMA Fingering ==
  ASSUME NEW fingers \in Slots, Distinct(fingers), NEW id \in FingerIds
  PROVE  /\ \A p \in Points :
              /\ Tracks(FingerDown(fingers, id, p), fingers, id, [id |-> id, at |-> p])
              /\ Tracks(FingerMove(fingers, id, p), fingers, id, [id |-> id, at |-> p])
         /\ Tracks(FingerUp(fingers, id), fingers, id, None)
<1>1. ASSUME NEW p \in Points
      PROVE  /\ Tracks(FingerDown(fingers, id, p), fingers, id, [id |-> id, at |-> p])
             /\ Tracks(FingerMove(fingers, id, p), fingers, id, [id |-> id, at |-> p])
  <2>1. PICK x \in Finger : x = [id |-> id, at |-> p]
    BY DEF Finger
  <2>2. x \in Finger \union {None} /\ x.id = id
    BY <2>1
  <2>3. Tracks(FingerDown(fingers, id, p), fingers, id, x)
    BY <2>1, <2>2, Tracking DEF FingerDown
  <2>4. Tracks(FingerMove(fingers, id, p), fingers, id, x)
    BY <2>1, <2>2, Tracking DEF FingerMove
  <2> QED
    BY <2>1, <2>3, <2>4
<1>2. Tracks(FingerUp(fingers, id), fingers, id, None)
  BY Tracking DEF FingerUp
<1> QED
  BY <1>1, <1>2

(* What Fingered comes to for any event.                                    *)
LEMMA FingeredSlots ==
  ASSUME CanvasTyped, NEW e \in Events
  PROVE  /\ Fingered(e) \in Slots /\ Distinct(Fingered(e))
         /\ \A s \in 1..2 : Fingered(e)[s] # None =>
              LET f == Fingered(e)[s].id
              IN  /\ f \in FingerIds
                  /\ IF e \in Touches(f) THEN Fingered(e)[s].at = Lies(e)
                     ELSE Fingered(e)[s] = canvas.fingers[s]
<1>1. canvas.fingers \in Slots /\ Distinct(canvas.fingers)
  BY DEF CanvasTyped
<1>2. \A g \in Slots : \A s \in 1..2 : g[s] # None => g[s].id \in FingerIds
  BY DEF Slots, Finger
<1>3. CASE e.type \in {"finger_down", "finger_move"}
  <2>1. /\ e.id \in FingerIds /\ e.at \in Points /\ Lies(e) = e.at
        /\ \A f : e \in Touches(f) <=> e.id = f
    BY <1>3 DEF Events, Touches, Lies
  <2>2. Fingered(e) \in {FingerDown(canvas.fingers, e.id, e.at), FingerMove(canvas.fingers, e.id, e.at)}
    BY <1>3 DEF Fingered
  <2>3. Tracks(Fingered(e), canvas.fingers, e.id, [id |-> e.id, at |-> e.at])
    BY <1>1, <2>1, <2>2, Fingering
  <2> QED
    BY <1>2, <2>1, <2>3 DEF Tracks
<1>4. CASE e.type = "finger_up"
  <2>1. /\ e.id \in FingerIds /\ \A f : e \in Touches(f) <=> e.id = f
    BY <1>4 DEF Events, Touches
  <2>2. Fingered(e) = FingerUp(canvas.fingers, e.id)
    BY <1>4 DEF Fingered
  <2>3. Tracks(Fingered(e), canvas.fingers, e.id, None)
    BY <1>1, <2>1, <2>2, Fingering
  <2> QED
    BY <1>2, <2>1, <2>3 DEF Tracks
<1>5. CASE e.type \notin {"finger_down", "finger_move", "finger_up"}
  <2>1. Fingered(e) = canvas.fingers /\ \A f : e \notin Touches(f)
    BY <1>5 DEF Fingered, Touches
  <2> QED
    BY <1>1, <1>2, <2>1
<1> QED
  BY <1>3, <1>4, <1>5

-----------------------------------------------------------------------------
(* The window: the canvas keeps its form *)

(* No step gives a finger two slots or a view another form.                 *)
LEMMA CanvasStep ==
  ASSUME ShellTyped, ResourceInv, CanvasTyped, [ShellNext]_shellVars
  PROVE  CanvasTyped'
<1>0. ASSUME Unmoved(canvas'), canvas'.view.viewport \in Int
      PROVE  CanvasTyped'
  BY <1>0 DEF Unmoved, CanvasTyped, Formed
<1>1. CASE UNCHANGED canvas
  BY <1>1 DEF CanvasTyped, Formed
<1>2. CASE \E w : canvas' = OnViewportSizeChanged(w)
  BY <1>0, <1>2, Steering DEF CanvasTyped
<1>3. CASE DispatchEvent
  <2>1. Event \in Events
    BY <1>3, FirstEvent DEF DispatchEvent
  <2>2. canvas' = Dispatched /\ canvas'.view.viewport \in Int
    BY <1>3 DEF DispatchEvent, Within
  <2>3. CASE Event \in Pointings
    <3>1. Event.at \in Points
      BY <2>1, <2>3 DEF Pointings, Events
    <3>2. Pointed(canvas', Event.at, Event.type # "move")
      BY <2>1, <2>2, <2>3, Dispatching
    <3> QED
      BY <2>2, <3>1, <3>2 DEF Pointed, CanvasTyped, Formed
  <2>4. CASE Event \notin Pointings
    <3>1. Settled(canvas')
      BY <2>1, <2>2, <2>4, Dispatching
    <3>2. canvas'.fingers \in Slots /\ Distinct(canvas'.fingers)
      <4>1. NoFingers \in Slots /\ Distinct(NoFingers)
        BY DEF NoFingers, Slots, Distinct
      <4> QED
        BY <2>1, <3>1, <4>1, FingeredSlots DEF Settled
    <3> QED
      BY <2>2, <3>1, <3>2 DEF Settled, CanvasTyped, Formed
  <2> QED
    BY <2>3, <2>4
<1>4. CASE Quietly
  <2>1. QuietlyKept
    BY <1>4, QuietStep
  <2> QED
    BY <1>1, <1>2, <2>1 DEF QuietlyKept
<1>5. CASE UNCHANGED shellVars
  BY <1>1, <1>5 DEF shellVars
<1>6. CASE \E e, p : Stamped(e, p) /\ Happens(e, p)
  BY <1>1, <1>6 DEF Happens
<1>7. CASE DropEvent \/ ResizeEvent
  BY <1>1, <1>2, <1>7 DEF DropEvent, ResizeEvent
<1> QED
  BY <1>3, <1>4, <1>5, <1>6, <1>7, ShellCases

(* A canvas that has seen nothing yet.                                      *)
LEMMA CanvasStarts ==
  ASSUME NEW focus, canvas = CanvasStart(focus)
  PROVE  CanvasTyped /\ canvas.fingers = NoFingers /\ canvas.seen = None
         /\ canvas.middle = None /\ canvas.told = None
<1>1. NoFingers \in Slots /\ Distinct(NoFingers)
  BY DEF NoFingers, Slots, Distinct
<1> QED
  BY <1>1 DEF CanvasStart, CanvasTyped, Formed

-----------------------------------------------------------------------------
(* The window: the delegate knows where the pointer is *)

(* An event is stamped with where the pointer is as it happens.             *)
LEMMA PlacesGrow ==
  ASSUME NEW q \in Seq(Events), NEW e \in Events, NEW seen, NEW was, NEW at,
         PlacesFollow(q, seen, was),
         e.type \in {"press", "move", "release"} => e.at = at, e.type # "move" => at = was
  PROVE  PlacesFollow(Append(q, e), seen, at)
<1> DEFINE r == Append(q, e)
           n == Len(q)
           A == Positions(q, Pointings)
           B == Positions(r, Pointings)
<1>1. n \in Nat /\ Len(r) = n + 1 /\ r[n + 1] = e /\ \A i \in 1..n : r[i] = q[i]
  BY QueueGrows
<1>2. \A k \in 1..(n + 1) : /\ NoneBefore(B, k) <=> NoneBefore(A, k)
                            /\ \A i : IsLast(B, i, k) <=> IsLast(A, i, k)
  BY QueueGrows
<1>3. /\ e \in Pointings => ~NoneBefore(B, n + 2) /\ \A i : IsLast(B, i, n + 2) => i = n + 1
      /\ e \notin Pointings => /\ NoneBefore(B, n + 2) => NoneBefore(A, n + 1)
                               /\ \A i : IsLast(B, i, n + 2) => IsLast(A, i, n + 1)
  BY QueueGrows
<1>4. \A i, l : IsLast(A, i, l) => i \in 1..n
  BY DEF IsLast, Positions
<1>5. \A l \in 1..(n + 1) : Resting(q, l) =>
        /\ NoneBefore(A, l) => seen \in {None, PlaceAt(q, l, was)}
        /\ \A i \in 1..n : IsLast(A, i, l) => PlaceAt(q, l, was) = q[i].at
  BY DEF PlacesFollow
<1>6. Resting(q, n + 1) /\ PlaceAt(q, n + 1, was) = was
  BY DEF Resting, PlaceAt
<1> HIDE DEF r, n, A, B
<1>7. SUFFICES ASSUME NEW k \in 1..(n + 2), Resting(r, k)
               PROVE  /\ NoneBefore(B, k) => seen \in {None, PlaceAt(r, k, at)}
                      /\ \A i \in 1..(n + 1) : IsLast(B, i, k) => PlaceAt(r, k, at) = r[i].at
  BY <1>1 DEF PlacesFollow, r, B
<1>8. CASE k \in 1..n
  <2>1. Resting(q, k) /\ PlaceAt(r, k, at) = PlaceAt(q, k, was)
    BY <1>1, <1>7, <1>8 DEF Resting, PlaceAt, n
  <2>2. /\ NoneBefore(A, k) => seen \in {None, PlaceAt(q, k, was)}
        /\ \A i \in 1..n : IsLast(A, i, k) => PlaceAt(q, k, was) = q[i].at
    BY <1>1, <1>5, <1>8, <2>1
  <2> QED
    BY <1>1, <1>2, <1>4, <1>8, <2>1, <2>2
<1>9. CASE k = n + 1
  <2>1. PlaceAt(r, k, at) = was
    BY <1>1, <1>7, <1>9 DEF Resting, PlaceAt
  <2> QED
    BY <1>1, <1>2, <1>4, <1>5, <1>6, <1>9, <2>1
<1>10. CASE k = n + 2
  <2>1. PlaceAt(r, k, at) = at
    BY <1>1, <1>10 DEF PlaceAt
  <2>2. CASE e \in Pointings
    <3>1. e.at = at
      BY <2>2 DEF Pointings
    <3> QED
      BY <1>1, <1>3, <1>10, <2>1, <2>2, <3>1
  <2>3. CASE e \notin Pointings
    <3>1. at = was
      BY <2>3 DEF Pointings
    <3> QED
      BY <1>1, <1>3, <1>4, <1>5, <1>6, <1>10, <2>1, <2>3, <3>1, SMTT(30)
  <2> QED
    BY <2>2, <2>3
<1> QED
  BY <1>1, <1>8, <1>9, <1>10

(* Handled, a pointer event is the last that the canvas has seen.           *)
LEMMA PlacesShift ==
  ASSUME NEW q \in Seq(Events), q # <<>>, NEW seen, NEW at, PlacesFollow(q, seen, at)
  PROVE  PlacesFollow(Tail(q), IF q[1] \in Pointings THEN q[1].at ELSE seen, at)
<1> DEFINE r == Tail(q)
           n == Len(r)
           A == Positions(q, Pointings)
           B == Positions(r, Pointings)
<1>1. n \in Nat /\ Len(q) = n + 1 /\ \A i \in 1..n : r[i] = q[i + 1]
  BY QueueShifts
<1>2. \A k \in 1..(n + 1) :
        /\ NoneBefore(B, k) => IF q[1] \in Pointings THEN IsLast(A, 1, k + 1) ELSE NoneBefore(A, k + 1)
        /\ \A i : IsLast(B, i, k) => i \in 1..n /\ IsLast(A, i + 1, k + 1)
  BY QueueShifts
<1>3. \A l \in 1..(n + 2) : Resting(q, l) =>
        /\ NoneBefore(A, l) => seen \in {None, PlaceAt(q, l, at)}
        /\ \A i \in 1..(n + 1) : IsLast(A, i, l) => PlaceAt(q, l, at) = q[i].at
  BY <1>1 DEF PlacesFollow
<1> HIDE DEF r, n, A, B
<1>4. SUFFICES ASSUME NEW k \in 1..(n + 1), Resting(r, k)
               PROVE  /\ NoneBefore(B, k) =>
                           (IF q[1] \in Pointings THEN q[1].at ELSE seen) \in {None, PlaceAt(r, k, at)}
                      /\ \A i \in 1..n : IsLast(B, i, k) => PlaceAt(r, k, at) = r[i].at
  BY <1>1 DEF PlacesFollow, r, n, B
<1>5. k + 1 \in 1..(n + 2) /\ Resting(q, k + 1) /\ PlaceAt(q, k + 1, at) = PlaceAt(r, k, at)
  BY <1>1, <1>4 DEF Resting, PlaceAt, n
<1>6. /\ NoneBefore(A, k + 1) => seen \in {None, PlaceAt(q, k + 1, at)}
      /\ \A i \in 1..(n + 1) : IsLast(A, i, k + 1) => PlaceAt(q, k + 1, at) = q[i].at
  BY <1>3, <1>5
<1>7. NoneBefore(B, k) =>
        (IF q[1] \in Pointings THEN q[1].at ELSE seen) \in {None, PlaceAt(r, k, at)}
  BY <1>1, <1>2, <1>5, <1>6
<1>8. ASSUME NEW i \in 1..n, IsLast(B, i, k)
      PROVE  PlaceAt(r, k, at) = r[i].at
  <2>1. i + 1 \in 1..(n + 1) /\ IsLast(A, i + 1, k + 1) /\ r[i] = q[i + 1]
    BY <1>1, <1>2, <1>8
  <2> QED
    BY <1>5, <1>6, <2>1
<1> QED
  BY <1>7, <1>8

(* The view is panned by what the pointer moves: it stays over its place.   *)
LEMMA PannedAlong ==
  ASSUME NEW view, DOMAIN view = {"world", "viewport", "zoom"}, view.viewport \in Int,
         NEW m \in Int, NEW at \in Int
  PROVE  ToWorld(PanBy(view, at - m), at) = ToWorld(view, m)
<1> DEFINE v == PanBy(view, at - m)
<1>1. v.world = view.world /\ v.zoom = view.zoom /\ v.viewport = view.viewport + (at - m)
  BY DEF PanBy
<1>2. at - (view.viewport + (at - m)) = m - view.viewport
  OBVIOUS
<1> HIDE DEF v
<1>3. ToWorld(v, at) = ToWorld(view, m)
  BY <1>1, <1>2 DEF ToWorld
<1> QED
  BY <1>3 DEF v

(* The places of the pointer follow, after every step.                      *)
LEMMA PointerStep ==
  ASSUME ShellTyped, ResourceInv, CanvasTyped, PointerInv, [ShellNext]_shellVars
  PROVE  PointerInv'
<1> SUFFICES ASSUME ~lost'
             PROVE  PointerInv'
  BY DEF PointerInv
<1>1. CASE UNCHANGED shellVars
  BY <1>1 DEF shellVars, PointerInv
<1>2. ASSUME NEW e, NEW p, Stamped(e, p), Happens(e, p)
      PROVE  PointerInv'
  <2>1. /\ platform'.queue = Append(platform.queue, e) /\ platform'.pointer = p.pointer
        /\ UNCHANGED <<canvas, lost>>
    BY <1>2, HappensStep
  <2>2. platform.queue \in Seq(Events) /\ e \in Events
    BY <1>2 DEF Stamped, ShellTyped, PlatformSpace
  <2>3. /\ e.type \in {"press", "move", "release"} => e.at = p.pointer
        /\ e.type # "move" => p.pointer = platform.pointer
    BY <1>2 DEF Stamped
  <2>4. PlacesFollow(platform.queue, canvas.seen, platform.pointer) =>
          PlacesFollow(Append(platform.queue, e), canvas.seen, p.pointer)
    BY <2>2, <2>3, PlacesGrow
  <2> QED
    BY <2>1, <2>4 DEF PointerInv
<1>3. ASSUME Unmoved(canvas'), UNCHANGED lost, platform'.queue = platform.queue,
             platform'.pointer = platform.pointer
      PROVE  PointerInv'
  BY <1>3 DEF PointerInv, Unmoved
<1>4. CASE Quietly
  <2>1. QuietlyKept
    BY <1>4, QuietStep
  <2>2. Unmoved(canvas')
    <3>1. CASE canvas' = canvas
      BY <3>1, Steering DEF Unmoved, Formed
    <3>2. CASE canvas' = OnViewportSizeChanged(platform.width)
      BY <3>2, Steering
    <3> QED
      BY <2>1, <3>1, <3>2 DEF QuietlyKept
  <2> QED
    BY <1>3, <2>1, <2>2 DEF QuietlyKept
<1>5. CASE DispatchEvent \/ DropEvent \/ ResizeEvent
  <2> DEFINE q == platform.queue
  <2>1. PICK stage \in {"loop", "drain", "returned"} : HandledTo(stage)
    BY <1>5, TurnTaken
  <2>2. platform'.queue = Tail(q) /\ platform'.pointer = platform.pointer
    BY <2>1 DEF HandledTo, ShellTyped, PlatformSpace
  <2>3. q \in Seq(Events) /\ q # <<>> /\ Event = q[1] /\ Event \in Events /\ Len(q) \in Nat \ {0}
    BY <2>1, FirstEvent DEF HandledTo
  <2>4. (DispatchEvent \/ ResizeEvent) /\ ~lost
    BY <1>5 DEF DispatchEvent, ResizeEvent, DropEvent
  <2>5. PlacesFollow(q, canvas.seen, platform.pointer)
    BY <2>4 DEF PointerInv
  <2>6. PlacesFollow(Tail(q), IF Event \in Pointings THEN Event.at ELSE canvas.seen, platform.pointer)
    BY <2>3, <2>5, PlacesShift
  <2>7. CASE DispatchEvent /\ Event \in Pointings
    <3>1. Pointed(canvas', Event.at, Event.type # "move")
      BY <2>3, <2>7, Dispatching DEF DispatchEvent
    <3>2. /\ Event.at \in Points /\ Event.type \in {"press", "move", "release"}
          /\ Event.at # None /\ Event.at \in Int
      BY <2>3, <2>7, WindowIsFormed DEF Pointings, Events
    <3>3. Event.type # "move" => canvas.seen \in {None, Event.at}
      <4>1. NoneBefore(Positions(q, Pointings), 1)
        BY <2>3 DEF NoneBefore, Positions
      <4>2. Event.type # "move" => Resting(q, 1) /\ PlaceAt(q, 1, platform.pointer) = Event.at
        BY <2>3, <3>2 DEF Resting, PlaceAt
      <4> QED
        BY <2>3, <2>5, <4>1, <4>2 DEF PlacesFollow
    <3>4. canvas.middle # None => canvas.middle = canvas.seen /\ canvas.middle \in Int
      BY <2>4, WindowIsFormed DEF PointerInv, CanvasTyped
    <3>5. canvas.told # None => /\ canvas.seen # None
                                /\ canvas.told = ToWorld(canvas.view, canvas.seen)
      BY <2>4 DEF PointerInv
    <3>6. canvas.middle # None =>
            ToWorld(PanBy(canvas.view, Event.at - canvas.middle), Event.at)
              = ToWorld(canvas.view, canvas.middle)
      BY <3>2, <3>4, PannedAlong DEF CanvasTyped, Formed
    <3>7. canvas'.seen = Event.at
      BY <3>1 DEF Pointed
    <3>8. canvas'.told # None => canvas'.told = ToWorld(canvas'.view, Event.at)
      BY <3>1, <3>3, <3>4, <3>5, <3>6 DEF Pointed
    <3>9. Event.type = "move" /\ canvas'.middle # None => canvas'.middle = Event.at
      <4>1. CASE Event.type = "move" /\ canvas.middle = None
        BY <3>1, <4>1 DEF Pointed
      <4>2. CASE Event.type = "move" /\ canvas.middle # None
        <5>1. canvas' = [Viewing(PanBy(canvas.view, Event.at - canvas.middle)) EXCEPT
                           !.middle = Event.at, !.seen = Event.at]
          BY <2>7, <4>2 DEF DispatchEvent, Dispatched, OnPointerMove
        <5> QED
          BY <5>1 DEF Viewing, CanvasTyped, Formed
      <4> QED
        BY <4>1, <4>2
    <3>10. Event.type # "move" /\ canvas'.middle # None => canvas'.middle = Event.at
      BY <3>1, <3>3, <3>4 DEF Pointed
    <3> QED
      BY <2>2, <2>6, <2>7, <3>2, <3>7, <3>8, <3>9, <3>10 DEF PointerInv
  <2>8. CASE DispatchEvent /\ Event \notin Pointings
    <3>1. Settled(canvas')
      BY <2>3, <2>8, Dispatching DEF DispatchEvent
    <3> QED
      BY <2>2, <2>4, <2>6, <2>8, <3>1 DEF Settled, PointerInv
  <2>9. CASE ResizeEvent
    <3>1. Event \notin Pointings
      BY <2>9 DEF ResizeEvent, Pointings
    <3>2. CASE canvas' = OnViewportSizeChanged(platform.width)
      <4>1. Unmoved(canvas')
        BY <3>2, Steering
      <4> QED
        BY <2>2, <2>4, <2>6, <3>1, <4>1 DEF Unmoved, PointerInv
    <3>3. CASE UNCHANGED canvas
      BY <2>2, <2>4, <2>6, <3>1, <3>3 DEF PointerInv
    <3> QED
      BY <2>9, <3>2, <3>3 DEF ResizeEvent
  <2> QED
    BY <2>4, <2>7, <2>8, <2>9
<1> QED
  BY <1>1, <1>2, <1>4, <1>5, ShellCases

-----------------------------------------------------------------------------
(* The window: fingers that are tracked are down *)

(* A finger's last event that waits is the one that has just happened.      *)
LEMMA FingersGrow ==
  ASSUME NEW q \in Seq(Events), NEW e \in Events, NEW was \in [FingerIds -> Points \union {None}],
         NEW down, NEW fingers \in Slots, FingersFollow(q, was),
         IF e.type \in {"finger_down", "finger_move", "finger_up"}
         THEN down = [was EXCEPT ![e.id] = IF e.type = "finger_up" THEN None ELSE e.at]
         ELSE down = was
  PROVE  /\ FingersFollow(Append(q, e), down)
         /\ FingersKnown(q, fingers, was) => FingersKnown(Append(q, e), fingers, down)
<1> DEFINE r == Append(q, e)
           n == Len(q)
<1>1. n \in Nat /\ Len(r) = n + 1 /\ r[n + 1] = e /\ \A i \in 1..n : r[i] = q[i]
  BY QueueGrows
<1>2. \A f \in FingerIds : IF e \in Touches(f) THEN down[f] = Lies(e) ELSE down[f] = was[f]
  <2>1. CASE e.type \in {"finger_down", "finger_move", "finger_up"}
    <3>1. e.id \in FingerIds
      BY <2>1 DEF Events
    <3> QED
      BY <2>1, <3>1 DEF Touches, Lies
  <2>2. CASE e.type \notin {"finger_down", "finger_move", "finger_up"}
    BY <2>2 DEF Touches
  <2> QED
    BY <2>1, <2>2
<1>3. ASSUME NEW f \in FingerIds
      PROVE  /\ e \in Touches(f) => \A i : IsLast(Positions(r, Touches(f)), i, n + 2) => i = n + 1
             /\ e \notin Touches(f) => \A i : IsLast(Positions(r, Touches(f)), i, n + 2) =>
                                         IsLast(Positions(q, Touches(f)), i, n + 1)
  BY QueueGrows
<1>4. ASSUME NEW f \in FingerIds, Positions(r, Touches(f)) = {}
      PROVE  e \notin Touches(f) /\ Positions(q, Touches(f)) = {}
  <2>1. n + 1 \in 1..Len(r) /\ \A i \in 1..n : i \in 1..Len(r)
    BY <1>1
  <2> QED
    BY <1>1, <1>4, <2>1 DEF Positions
<1>5. FingersFollow(r, down)
  <2> SUFFICES ASSUME NEW f \in FingerIds, NEW i \in 1..Len(r),
                      IsLast(Positions(r, Touches(f)), i, Len(r) + 1)
               PROVE  down[f] = Lies(r[i])
    BY DEF FingersFollow
  <2>1. IsLast(Positions(r, Touches(f)), i, n + 2)
    BY <1>1
  <2>2. CASE e \in Touches(f)
    <3>1. i = n + 1
      BY <1>3, <2>1, <2>2
    <3> QED
      BY <1>1, <1>2, <2>2, <3>1
  <2>3. CASE e \notin Touches(f)
    <3>1. IsLast(Positions(q, Touches(f)), i, n + 1)
      BY <1>3, <2>1, <2>3
    <3>2. i \in 1..n
      BY <3>1 DEF IsLast, Positions
    <3>3. was[f] = Lies(q[i])
      BY <3>1, <3>2 DEF FingersFollow
    <3> QED
      BY <1>1, <1>2, <2>3, <3>2, <3>3
  <2> QED
    BY <2>2, <2>3
<1>6. ASSUME FingersKnown(q, fingers, was)
      PROVE  FingersKnown(r, fingers, down)
  <2> SUFFICES ASSUME NEW s \in 1..2, fingers[s] # None,
                      Positions(r, Touches(fingers[s].id)) = {}
               PROVE  down[fingers[s].id] = fingers[s].at
    BY DEF FingersKnown
  <2>1. fingers[s].id \in FingerIds
    BY DEF Slots, Finger
  <2> QED
    BY <1>2, <1>4, <1>6, <2>1 DEF FingersKnown
<1> QED
  BY <1>5, <1>6

(* Handled, a finger's event leaves its slot where it was put.              *)
LEMMA FingersShift ==
  ASSUME NEW q \in Seq(Events), q # <<>>, NEW down, NEW fingers, NEW g,
         FingersFollow(q, down),
         \A s \in 1..2 : g[s] # None =>
           LET f == g[s].id
           IN  f \in FingerIds /\ IF q[1] \in Touches(f) THEN g[s].at = Lies(q[1])
                                  ELSE g[s] = fingers[s]
  PROVE  /\ FingersFollow(Tail(q), down)
         /\ FingersKnown(q, fingers, down) => FingersKnown(Tail(q), g, down)
<1> DEFINE r == Tail(q)
           n == Len(r)
<1>1. n \in Nat /\ Len(q) = n + 1 /\ \A i \in 1..n : r[i] = q[i + 1]
  BY QueueShifts
<1>2. ASSUME NEW f \in FingerIds
      PROVE  /\ \A i : IsLast(Positions(r, Touches(f)), i, n + 1) =>
                  i \in 1..n /\ IsLast(Positions(q, Touches(f)), i + 1, n + 2)
             /\ NoneBefore(Positions(r, Touches(f)), n + 1) =>
                  IF q[1] \in Touches(f) THEN IsLast(Positions(q, Touches(f)), 1, n + 2)
                  ELSE NoneBefore(Positions(q, Touches(f)), n + 2)
  BY <1>1, QueueShifts
<1>3. FingersFollow(r, down)
  <2> SUFFICES ASSUME NEW f \in FingerIds, NEW i \in 1..n,
                      IsLast(Positions(r, Touches(f)), i, n + 1)
               PROVE  down[f] = Lies(r[i])
    BY DEF FingersFollow
  <2>1. i + 1 \in 1..Len(q) /\ IsLast(Positions(q, Touches(f)), i + 1, Len(q) + 1)
    BY <1>1, <1>2
  <2> QED
    BY <1>1, <2>1 DEF FingersFollow
<1>4. ASSUME FingersKnown(q, fingers, down)
      PROVE  FingersKnown(r, g, down)
  <2> SUFFICES ASSUME NEW s \in 1..2, g[s] # None, Positions(r, Touches(g[s].id)) = {}
               PROVE  down[g[s].id] = g[s].at
    BY DEF FingersKnown
  <2> DEFINE f == g[s].id
  <2>1. f \in FingerIds /\ NoneBefore(Positions(r, Touches(f)), n + 1)
    BY DEF NoneBefore
  <2>2. CASE q[1] \in Touches(f)
    <3>1. IsLast(Positions(q, Touches(f)), 1, Len(q) + 1) /\ 1 \in 1..Len(q)
      BY <1>1, <1>2, <2>1, <2>2
    <3>2. down[f] = Lies(q[1])
      BY <2>1, <3>1 DEF FingersFollow
    <3> QED
      BY <2>2, <3>2
  <2>3. CASE q[1] \notin Touches(f)
    <3>1. NoneBefore(Positions(q, Touches(f)), n + 2)
      BY <1>2, <2>1, <2>3
    <3>2. Positions(q, Touches(f)) = {}
      BY <1>1, <3>1 DEF NoneBefore, Positions
    <3> QED
      BY <1>4, <2>3, <3>2 DEF FingersKnown
  <2> QED
    BY <2>2, <2>3
<1> QED
  BY <1>3, <1>4

(* The places of the fingers follow, after every step.                      *)
LEMMA FingerStep ==
  ASSUME ShellTyped, ResourceInv, CanvasTyped, FingerInv, [ShellNext]_shellVars
  PROVE  FingerInv'
<1>1. CASE UNCHANGED shellVars
  BY <1>1 DEF shellVars, FingerInv
<1>2. ASSUME NEW e, NEW p, Stamped(e, p), Happens(e, p)
      PROVE  FingerInv'
  <2>1. /\ platform'.queue = Append(platform.queue, e) /\ platform'.down = p.down
        /\ UNCHANGED <<canvas, lost>>
    BY <1>2, HappensStep
  <2>2. /\ platform.queue \in Seq(Events) /\ e \in Events
        /\ platform.down \in [FingerIds -> Points \union {None}] /\ canvas.fingers \in Slots
    BY <1>2 DEF Stamped, ShellTyped, PlatformSpace, CanvasTyped
  <2>3. IF e.type \in {"finger_down", "finger_move", "finger_up"}
        THEN p.down = [platform.down EXCEPT ![e.id] = IF e.type = "finger_up" THEN None ELSE e.at]
        ELSE p.down = platform.down
    BY <1>2 DEF Stamped
  <2>4. FingersFollow(platform.queue, platform.down)
    BY DEF FingerInv
  <2>5. /\ FingersFollow(Append(platform.queue, e), p.down)
        /\ FingersKnown(platform.queue, canvas.fingers, platform.down) =>
             FingersKnown(Append(platform.queue, e), canvas.fingers, p.down)
    BY <2>2, <2>3, <2>4, FingersGrow
  <2> QED
    BY <2>1, <2>5 DEF FingerInv
<1>3. CASE Quietly
  <2>1. QuietlyKept
    BY <1>3, QuietStep
  <2>2. canvas'.fingers = canvas.fingers
    BY <2>1, Steering DEF QuietlyKept, Unmoved
  <2> QED
    BY <2>1, <2>2 DEF QuietlyKept, FingerInv
<1>4. CASE DispatchEvent \/ DropEvent \/ ResizeEvent
  <2> DEFINE q == platform.queue
  <2>1. PICK stage \in {"loop", "drain", "returned"} : HandledTo(stage)
    BY <1>4, TurnTaken
  <2>2. platform'.queue = Tail(q) /\ platform'.down = platform.down
    BY <2>1 DEF HandledTo, ShellTyped, PlatformSpace
  <2>3. q \in Seq(Events) /\ q # <<>> /\ Event = q[1] /\ Event \in Events
    BY <2>1, FirstEvent DEF HandledTo
  <2>4. FingersFollow(q, platform.down)
    BY DEF FingerInv
  <2>5. \A s \in 1..2 : Fingered(Event)[s] # None =>
          LET f == Fingered(Event)[s].id
          IN  f \in FingerIds /\ IF Event \in Touches(f) THEN Fingered(Event)[s].at = Lies(Event)
                                 ELSE Fingered(Event)[s] = canvas.fingers[s]
    BY <2>3, FingeredSlots
  <2>6. /\ FingersFollow(Tail(q), platform.down)
        /\ FingersKnown(q, canvas.fingers, platform.down) =>
             FingersKnown(Tail(q), Fingered(Event), platform.down)
    BY <2>3, <2>4, <2>5, FingersShift
  <2>7. FingersKnown(Tail(q), NoFingers, platform.down)
    BY DEF FingersKnown, NoFingers
  <2>8. ~lost' => ~lost /\ canvas'.fingers \in {Fingered(Event), NoFingers}
    <3>1. CASE DropEvent
      BY <3>1 DEF DropEvent
    <3>2. CASE DispatchEvent
      <4>1. UNCHANGED lost
        BY <3>2 DEF DispatchEvent
      <4>2. CASE Event \in Pointings
        <5>1. Fingered(Event) = canvas.fingers
          BY <4>2 DEF Pointings, Fingered
        <5>2. canvas'.fingers = canvas.fingers
          BY <2>3, <3>2, <4>2, Dispatching DEF DispatchEvent, Pointed
        <5> QED
          BY <4>1, <5>1, <5>2
      <4>3. CASE Event \notin Pointings
        BY <2>3, <3>2, <4>1, <4>3, Dispatching DEF DispatchEvent, Settled
      <4> QED
        BY <4>2, <4>3
    <3>3. CASE ResizeEvent
      <4>1. Fingered(Event) = canvas.fingers
        BY <3>3 DEF ResizeEvent, Fingered
      <4>2. canvas'.fingers = canvas.fingers /\ UNCHANGED lost
        BY <3>3, Steering DEF ResizeEvent, Unmoved
      <4> QED
        BY <4>1, <4>2
    <3> QED
      BY <1>4, <3>1, <3>2, <3>3
  <2> QED
    BY <2>2, <2>6, <2>7, <2>8 DEF FingerInv
<1> QED
  BY <1>1, <1>2, <1>3, <1>4, ShellCases

(* Nothing waits and nothing has been seen before the window opens.         *)
LEMMA GesturesStart ==
  ASSUME ShellInit
  PROVE  CanvasTyped /\ PointerInv /\ FingerInv
<1>1. /\ CanvasTyped /\ canvas.fingers = NoFingers /\ canvas.seen = None
      /\ canvas.middle = None /\ canvas.told = None
  BY ShellStarts, CanvasStarts
<1>2. platform.queue = <<>> /\ platform.down = [f \in FingerIds |-> None]
  BY ShellStarts
<1>3. PlacesFollow(<<>>, None, platform.pointer) /\ FingersFollow(<<>>, platform.down)
      /\ FingersKnown(<<>>, NoFingers, platform.down)
  BY DEF PlacesFollow, FingersFollow, FingersKnown, NoFingers
<1> QED
  BY <1>1, <1>2, <1>3 DEF PointerInv, FingerInv

(* Where the delegate last saw the pointer in the world is where it is, and *)
(* a finger that is tracked once the queue is empty is on the pad where it  *)
(* is thought to be, for every queue, view and number of fingers.           *)
THEOREM GesturesFollow == ShellSpec => []GesturesFollowHands
<1> DEFINE Inv == CanvasTyped /\ PointerInv /\ FingerInv
<1>1. ShellInit => Inv
  BY GesturesStart
<1>2. (ShellTyped /\ ResourceInv) /\ Inv /\ [ShellNext]_shellVars => Inv'
  BY CanvasStep, PointerStep, FingerStep
<1>3. Inv => GesturesFollowHands
  <2> SUFFICES ASSUME Inv PROVE GesturesFollowHands
    OBVIOUS
  <2>1. DelegateKnowsPointer
    BY DEF PointerInv, DelegateKnowsPointer
  <2>2. ASSUME ~lost, platform.queue = <<>>, NEW s \in {1, 2}, canvas.fingers[s] # None
        PROVE  /\ platform.down[canvas.fingers[s].id] = canvas.fingers[s].at
               /\ canvas.fingers[1] # canvas.fingers[2]
    <3>1. Positions(platform.queue, Touches(canvas.fingers[s].id)) = {}
      BY <2>2 DEF Positions
    <3>2. platform.down[canvas.fingers[s].id] = canvas.fingers[s].at
      BY <2>2, <3>1 DEF FingerInv, FingersKnown
    <3>3. canvas.fingers[1] # canvas.fingers[2]
      BY <2>2 DEF CanvasTyped, Distinct
    <3> QED
      BY <3>2, <3>3
  <2> QED
    BY <2>1, <2>2 DEF GesturesFollowHands, TrackedFingersAreDown
<1> QED
  BY <1>1, <1>2, <1>3, ShellInductive, PTL DEF ShellSpec
=============================================================================
