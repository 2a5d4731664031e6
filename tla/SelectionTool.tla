---------------------------- MODULE SelectionTool ----------------------------
(* The selection tool of the writer: SelectionToolHandler's pointer, range  *)
(* and tool handling over SelectionDragState, and the resolution of points  *)
(* and spans to selections (notation_range_selection.cpp and its siblings). *)
(*                                                                          *)
(* Calls come in any order the user and the window can produce, a release   *)
(* that never arrives included.  The staves are numbered in score order, a  *)
(* time is a whole number of grid units, and of a voice only its length     *)
(* counts: its events lie end to end, so it overlaps a span that starts     *)
(* before it ends.  A command is reached by its key or its palette row; the *)
(* palette itself, the step-entry cursor (WriterSession) and the preview of *)
(* a paste are left out.                                                    *)
EXTENDS Integers, Sequences

CONSTANTS
  Unset,       \* std::nullopt
  StaffCount, \* staves in score_ordered_staves()
  VoiceNames,
  Contents,   \* what the project may hold: the length of each stave's voices
  Bars,       \* where the measures start, and the end of the last
  Spots,      \* NotationPoints, as what hit testing makes of them
  Named,      \* selections of a single note, rest, marking or caret
  Step        \* kProvisionalRangeExtensionStep

Staffs     == 1..StaffCount
EndOfNode  == Bars[Len(Bars)]
RangeItems == Staffs \X VoiceNames

Nothing    == [kind |-> "nothing"]
ASSUME ScoreIsFormed ==
  /\ StaffCount \in Nat /\ Step \in Nat
  /\ Contents \subseteq [Staffs -> [VoiceNames -> Nat]]
  /\ Bars \in Seq(Nat) /\ Bars # <<>>
\* A point: finite or not; the stave it is on, if any, with the time and the
\* measure there; whether the measure itself is hit; what a click names.
ASSUME SpotsAreFormed ==
  /\ \A s \in Named : s.kind \notin {"nothing", "range", "measures"}
  /\ Spots \subseteq [finite : BOOLEAN, staff : Staffs \union {Unset}, time : Nat,
                      measure : Nat, area : BOOLEAN, names : Named \union {Nothing}]

\* What a span or two points resolve to.
Found == {Nothing} \union [kind : {"range"}, start : Int, end : Int, items : SUBSET RangeItems]
\* Unset is neither a point nor the record of a press or of a drag.
ASSUME UnsetIsNoPress ==
  /\ Unset \notin Spots /\ Unset \notin [anchor : Spots, live : Found]
  /\ \A kind \in {"range", "measures"}, p \in Spots, m \in BOOLEAN :
       Unset # [kind |-> kind, at |-> p, moved |-> m]

VARIABLES
  activeTool,   \* active_tool_
  filled,       \* what the voices hold
  rangeDrag,    \* SelectionDragState while dragging_: anchor_, live_extent_
  measureDrag,  \* measure_selection_anchor_ while measure_selection_drag_
  moved,        \* moved_during_drag_
  pending,      \* note_entry_press_pending_
  selection,    \* committed_selection_, or Nothing
  scope,        \* first_staff_ and last_staff_
  focusEdge,    \* focus_edge_
  highlight,    \* the rectangles the shell was last given
  gesture,      \* history: the press whose release is awaited, with its kind
  stray         \* history: a measure drag has outlived its press

toolVars == <<activeTool, filled, rangeDrag, measureDrag, moved, pending, selection,
              scope, focusEdge, highlight, gesture, stray>>

----------------------------------------------------------------------------
(* Points and spans to selections                                           *)
Lower(n, m)  == IF n <= m THEN n ELSE m
Higher(n, m) == IF n <= m THEN m ELSE n
Amid(s, n, m) == Lower(n, m) <= s /\ s <= Higher(n, m)

\* voice_overlaps_span() on every voice of the staves from one to the other
Overlapped(lengths, start, from, to) ==
  {i \in RangeItems : Amid(i[1], from, to) /\ start < lengths[i[1]][i[2]]}
\* build_arbitrary_range_selection()
BuildRange(lengths, start, end, from, to) ==
  IF start < end /\ Overlapped(lengths, start, from, to) # {}
  THEN [kind |-> "range", start |-> start, end |-> end,
        items |-> Overlapped(lengths, start, from, to)]
  ELSE Nothing

\* resolve_range_selection()
ResolveRange(lengths, anchor, focus) ==
  IF ~anchor.finite \/ ~focus.finite \/ anchor.staff = Unset \/ focus.staff = Unset THEN Nothing
  ELSE BuildRange(lengths, Lower(anchor.time, focus.time), Higher(anchor.time, focus.time),
                  anchor.staff, focus.staff)
\* resolve_range_selection_spec()
ResolveSpec(lengths, start, end, from, to) ==
  IF start < 0 \/ end > EndOfNode THEN Nothing ELSE BuildRange(lengths, start, end, from, to)
\* resolve_measure_range_selection()
ResolveMeasures(anchor, focus) ==
  IF ~(anchor.finite /\ focus.finite /\ anchor.area /\ focus.area) \/ anchor.staff # focus.staff
  THEN Nothing
  ELSE [kind |-> "measures", staff |-> anchor.staff,
        first |-> Lower(anchor.measure, focus.measure),
        last |-> Higher(anchor.measure, focus.measure)]
\* resolve_selection_at()
ResolveAt(p) == IF p.finite THEN p.names ELSE Nothing

\* build_range_highlight_rects(), one rectangle for a stave and a span
RangeHighlight(s) ==
  IF s.kind = "range" THEN {<<i[1], s.start, s.end>> : i \in s.items}
  ELSE IF s.kind = "measures" THEN {<<s.staff, Bars[s.first], Bars[s.last + 1]>>}
  ELSE {}
Prominent(drag, s) == IF drag # Unset /\ drag.live # Nothing THEN drag.live ELSE s
\* update_highlight(), last in nearly every handler
UpdateHighlight == highlight' = RangeHighlight(Prominent(rangeDrag', selection'))

----------------------------------------------------------------------------
(* SelectionDragState: begin(), update(), and what ends a drag              *)
Begun(p) == IF activeTool = "selection" /\ p.finite THEN [anchor |-> p, live |-> Nothing] ELSE Unset
Updated(p) == [rangeDrag EXCEPT !.live = ResolveRange(filled, rangeDrag.anchor, p)]
\* set_committed_selection() cancels a drag in progress.
SetSelection(s) ==
  /\ selection' = s /\ rangeDrag' = Unset
  /\ gesture' = IF gesture # Unset /\ gesture.kind = "range" THEN Unset ELSE gesture

(* Mutant of SyncedScope: the staves of the last selection stay.            *)
SyncedScope_Stale(s) == IF scope = Unset THEN <<1, 1>> ELSE scope
\* sync_staff_endpoints_from_committed(), after a drag
SyncedScope(s) ==
  LET staves == {i[1] : i \in s.items}
  IN  <<CHOOSE n \in staves : \A m \in staves : n <= m,
        CHOOSE n \in staves : \A m \in staves : m <= n>>

----------------------------------------------------------------------------
(* The pointer                                                              *)
PressToEnter(p) ==
  /\ activeTool = "entry"
  /\ pending' = TRUE
  /\ UNCHANGED <<activeTool, filled, rangeDrag, measureDrag, moved, selection, scope,
                 focusEdge, highlight, gesture, stray>>
\* With the measure modifier.  The highlight is left as it is.
PressOnMeasure(p) ==
  /\ activeTool = "selection"
  /\ rangeDrag' = Unset /\ measureDrag' = p /\ moved' = FALSE
  /\ gesture' = [kind |-> "measures", at |-> p, moved |-> FALSE]
  /\ stray' = FALSE
  /\ UNCHANGED <<activeTool, filled, pending, selection, scope, focusEdge, highlight>>
Press(p) ==
  /\ activeTool = "selection"
  /\ rangeDrag' = Begun(p)
  /\ moved' = IF Begun(p) = Unset THEN moved ELSE FALSE
  /\ gesture' = IF Begun(p) = Unset THEN Unset ELSE [kind |-> "range", at |-> p, moved |-> FALSE]
  /\ stray' = (stray \/ measureDrag # Unset)
  /\ UNCHANGED <<activeTool, filled, measureDrag, pending, selection, scope, focusEdge>>
  /\ UpdateHighlight

MoveToEnter(p) ==
  /\ activeTool = "entry"
  /\ pending' = FALSE
  /\ UNCHANGED <<activeTool, filled, rangeDrag, measureDrag, moved, selection, scope,
                 focusEdge, highlight, gesture, stray>>
Follow == gesture' = IF gesture = Unset THEN Unset ELSE [gesture EXCEPT !.moved = TRUE]
Move(p) ==
  /\ activeTool = "selection"
  /\ moved' = TRUE /\ Follow
  /\ UNCHANGED <<activeTool, filled, measureDrag, pending, selection, scope, focusEdge, stray>>
  /\ \/ measureDrag # Unset /\ UNCHANGED <<rangeDrag, highlight>>
     \/ /\ measureDrag = Unset /\ rangeDrag # Unset /\ p.finite
        /\ rangeDrag' = Updated(p)
        /\ UpdateHighlight

\* A release of the primary button enters a note or a rest, where it can; the
\* release of another takes the press back.
ReleaseToEnter(primary) ==
  /\ activeTool = "entry"
  /\ pending' = FALSE
  /\ \/ primary /\ pending /\ filled' \in Contents
        /\ \/ \E s \in Named : SetSelection(s)
           \/ UNCHANGED <<selection, rangeDrag, gesture>>
        /\ UpdateHighlight
     \/ UNCHANGED <<filled, selection, rangeDrag, gesture, highlight>>
  /\ UNCHANGED <<activeTool, measureDrag, moved, scope, focusEdge, stray>>
\* Of the primary button: no other began a drag (initiating_button_).
ReleaseOnMeasure(p) ==
  LET s == ResolveMeasures(measureDrag, p)
  IN  /\ activeTool = "selection" /\ measureDrag # Unset
      /\ measureDrag' = Unset
      /\ IF s = Nothing THEN selection' = selection /\ rangeDrag' = rangeDrag
         ELSE selection' = s /\ rangeDrag' = Unset
      /\ gesture' = Unset /\ stray' = (stray /\ rangeDrag' # Unset)
      /\ UNCHANGED <<activeTool, filled, moved, pending, scope, focusEdge>>
      /\ UpdateHighlight
Click(p) ==
  /\ activeTool = "selection" /\ measureDrag = Unset /\ rangeDrag # Unset /\ ~moved
  /\ rangeDrag' = Unset /\ gesture' = Unset /\ stray' = FALSE
  /\ selection' = IF ResolveAt(p) = Nothing THEN selection ELSE ResolveAt(p)
  /\ UNCHANGED <<activeTool, filled, measureDrag, moved, pending, scope, focusEdge>>
  /\ UpdateHighlight
ReleaseDrag(p) ==
  LET s == IF p.finite THEN ResolveRange(filled, rangeDrag.anchor, p) ELSE Nothing
  IN  /\ activeTool = "selection" /\ measureDrag = Unset /\ rangeDrag # Unset /\ moved
      /\ rangeDrag' = Unset /\ gesture' = Unset /\ stray' = FALSE
      /\ selection' = IF s = Nothing THEN selection ELSE s
      /\ scope' = IF s = Nothing THEN scope ELSE SyncedScope(s)
      /\ UNCHANGED <<activeTool, filled, measureDrag, moved, pending, focusEdge>>
      /\ UpdateHighlight
Release(p) == ReleaseOnMeasure(p) \/ Click(p) \/ ReleaseDrag(p)

CancelPointer ==
  /\ pending' = FALSE /\ measureDrag' = Unset /\ rangeDrag' = Unset
  /\ gesture' = Unset /\ stray' = FALSE
  /\ UNCHANGED <<activeTool, filled, moved, selection, scope, focusEdge>>
  /\ UpdateHighlight

(* set_active_tool(), by toggle_tool().  A measure drag is not cancelled.   *)
ToggleTool ==
  /\ activeTool' = IF activeTool = "entry" THEN "selection" ELSE "entry"
  /\ rangeDrag' = Unset /\ pending' = FALSE
  /\ gesture' = Unset
  /\ stray' = (stray \/ measureDrag # Unset)
  /\ UNCHANGED <<filled, measureDrag, moved, selection, scope, focusEdge>>
  /\ UpdateHighlight

----------------------------------------------------------------------------
(* The keys and the accessible controls                                     *)
Widened(s) == SetSelection(s) /\ UpdateHighlight
              /\ UNCHANGED <<activeTool, filled, measureDrag, moved, pending, stray>>

\* Mutant of MovedEdge: the focus stays when the edges cross.
MovedEdge_Stays(from, time) == focusEdge
\* Which edge of the new span is the moved one: they may have crossed.
MovedEdge(from, time) == IF from = time THEN "start" ELSE "end"
ExtendRangeEdge(edge, time) ==
  LET fixed == IF edge = "start" THEN selection.end ELSE selection.start
      from  == Lower(time, fixed)
      s     == ResolveSpec(filled, from, Higher(time, fixed), scope[1], scope[2])
  IN  /\ selection.kind = "range" /\ scope # Unset
      /\ s # Nothing
      /\ focusEdge' = MovedEdge(from, time)
      /\ Widened(s) /\ UNCHANGED scope
ShiftEdge(by) ==
  /\ activeTool = "selection" /\ selection.kind = "range"
  /\ ExtendRangeEdge(focusEdge, by + (IF focusEdge = "start" THEN selection.start
                                                           ELSE selection.end))
SelectToNodeStart == activeTool = "selection" /\ ExtendRangeEdge("start", 0)
SelectToNodeEnd   == activeTool = "selection" /\ ExtendRangeEdge("end", EndOfNode)

ExtendRangeStaffScope(first, last) ==
  LET s == BuildRange(filled, selection.start, selection.end, first, last)
  IN  /\ selection.kind = "range"
      /\ s # Nothing
      /\ scope' = <<first, last>>
      /\ Widened(s) /\ UNCHANGED focusEdge
ScopeUp ==
  /\ activeTool = "selection" /\ scope # Unset /\ scope[1] > 1
  /\ ExtendRangeStaffScope(scope[1] - 1, scope[2])
ScopeDown ==
  /\ activeTool = "selection" /\ scope # Unset /\ scope[2] < StaffCount
  /\ ExtendRangeStaffScope(scope[1], scope[2] + 1)

(* Every other command: it may fill voices or take that back, and selects a *)
(* single thing, nothing, or leaves the selection.                          *)
Edit ==
  /\ filled' \in Contents
  /\ \/ UNCHANGED <<selection, rangeDrag, gesture>>
     \/ \E s \in Named \union {Nothing} : SetSelection(s)
  /\ UNCHANGED <<activeTool, measureDrag, moved, pending, scope, focusEdge, stray>>
  /\ UpdateHighlight

ToolInit ==
  /\ activeTool = "selection" /\ filled \in Contents
  /\ rangeDrag = Unset /\ measureDrag = Unset /\ moved = FALSE /\ pending = FALSE
  /\ selection = Nothing /\ scope = Unset /\ focusEdge = "end" /\ highlight = {}
  /\ gesture = Unset /\ stray = FALSE
ToolNext ==
  \/ \E p \in Spots : PressToEnter(p) \/ PressOnMeasure(p) \/ Press(p)
                        \/ MoveToEnter(p) \/ Move(p) \/ Release(p)
  \/ \E primary \in BOOLEAN : ReleaseToEnter(primary)
  \/ CancelPointer \/ ToggleTool \/ Edit
  \/ \E by \in {-Step, Step} : ShiftEdge(by)
  \/ SelectToNodeStart \/ SelectToNodeEnd \/ ScopeUp \/ ScopeDown
  \/ \E first, last \in Staffs : ExtendRangeStaffScope(first, last)
ToolSpec == ToolInit /\ [][ToolNext]_toolVars

----------------------------------------------------------------------------
(* Properties                                                               *)

\* What the release at p of the gesture g is to select, if anything.
Meant(g, p) ==
  IF g.kind = "measures" THEN ResolveMeasures(g.at, p)
  ELSE IF g.moved THEN ResolveRange(filled, g.at, p)
  ELSE ResolveAt(p)
\* A release selects what its own press and its own place say, and does so
\* whenever they say something.
ReleaseIsMeant ==
  \A p \in Spots : ~stray /\ Release(p) =>
    /\ gesture # Unset
    /\ selection' = IF Meant(gesture, p) = Nothing THEN selection ELSE Meant(gesture, p)
\* The press whose release is awaited still drags.
PressIsHeld == gesture # Unset /\ ~stray => measureDrag # Unset \/ rangeDrag # Unset

\* A step that moves an edge of the span, and where it is moved from.
Extends(edge) ==
  \/ edge = focusEdge /\ \E by \in {-Step, Step} : ShiftEdge(by)
  \/ edge = "start" /\ SelectToNodeStart
  \/ edge = "end" /\ SelectToNodeEnd
Opposite(s, edge) == IF edge = "start" THEN s.end ELSE s.start
\* The opposite edge stays where it is and is opposite still, crossed or not;
\* no voice that sounds in the new span is lost.
EdgeIsKept ==
  \A edge \in {"start", "end"} : Extends(edge) =>
    /\ Opposite(selection', focusEdge') = Opposite(selection, edge)
    /\ {i \in selection.items : selection'.start < filled[i[1]][i[2]]} \subseteq selection'.items
\* The span stays, and every voice that still sounds in it.
ScopeGrows ==
  (ScopeUp \/ ScopeDown) /\ scope[1] <= scope[2] =>
    /\ selection'.start = selection.start /\ selection'.end = selection.end
    /\ {i \in selection.items : selection.start < filled[i[1]][i[2]]} \subseteq selection'.items
\* The rectangles are those of what is being selected, or is selected.
HighlightIsCurrent ==
  measureDrag = Unset => highlight = RangeHighlight(Prominent(rangeDrag, selection))

(* Whatever the order of presses, moves, releases, tool switches, edits and *)
(* keys, a press drags on until its release, which commits what that press  *)
(* began whenever it resolves to something (unless a measure drag has       *)
(* outlived its press); an extension keeps the edge opposite to the one it  *)
(* moves, through crossings, and the voices it does not move away from; and *)
(* what is highlighted is what is selected                                  *)
(* (selection_tool_handler_pointer.cpp and _range.cpp).                     *)
SelectionIsMeant ==
  [][/\ ReleaseIsMeant /\ EdgeIsKept /\ ScopeGrows
     /\ PressIsHeld' /\ HighlightIsCurrent']_toolVars
=============================================================================
