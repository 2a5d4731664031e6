# GraphScore in TLA+

GraphScore (`src/`) is a C++23 program for adaptive music: a notation writer in
which a *project* is a graph of score-bearing *nodes*, and a runtime that plays
such a graph, choosing at every node boundary where to go next from the events
that have arrived. This directory holds its specification: TLA+ modules that
follow the code, TLC configurations that check them on small instances, and
TLAPS proofs about them.

All paths below are relative to the repository root; `domain/x` stands for
`src/domain/x.cpp` with `include/graphscore/domain/x.hpp`, `notation/x` for
`src/notation/x.cpp`, `writer_app/x` for `apps/writer_app/x.cpp`.

## 1. Inventory

The code is single-threaded. What is hard in it is not threads but *protocols
over long call sequences*: records returned once and never again, ids that go
stale, several maps kept in step by hand, caches told what changed, steps of
which one may fail after others took effect, gestures that are interrupted, and
a caller (the scheduler, the editor) whose obligations are written only in
header comments.

| Component | State | Operations | Talks to | Hard behaviour | What makes it correct |
|---|---|---|---|---|---|
| MIDI ownership (`domain/midi_ownership`) | owner of each (channel, pitch); reverse lookup by attack; pedal spans with scope; pedal count per channel; source of each tail snapshot | begin tail, transfer main to tail, attack, release, pedal down/up, vertical jump, clear all, panic, retire tail | its caller sends what the returned records say | late releases, retriggers, cycles that re-enter a node while its tail sounds, sweeps by scope | no stuck or wrongly cut note; CC64 = logical OR of the spans |
| Event queue (`domain/event_queue`) | pending occurrences, dropped count | record, peek, consume, clear | owned by the state machine | full FIFO, policy changed while pending | contents are what the policy makes of the arrivals |
| Event state machine (`domain/event_state_machine`) | queue per (node, event), arrival counter, manual choice per node, instant of the last jump, PRNG | record, resolve boundary and transition, queue manual, resolve vertical, clear node, all, event | reads nodes, outputs, listeners; told of lost listeners by its caller | arbitration of three tiers over a graph edited meanwhile; jumps that could chain | precedence of the tiers; one occurrence per decision; one jump per instant; nothing resurrected |
| Weighted selection (`domain/weighted_selection`) | none | validate group, roll bound, select | state machine, validation service | 64-bit overflow of the common denominator, bucket edges | each output drawn with exactly its share |
| Vertical mapping (`domain/vertical_transition`) | none | compatibility, position mapping | the state machine's caller | unequal measures | position preserved |
| Node outputs and listeners (`domain/node`, `connector`, `event_listener`) | inputs, outputs in order, type, binding, destination, priority, weight, one listener per bound event | add, remove, restore, bind, retype, listener policy | edited by commands, read by the state machine | several outputs share one listener | one listener per bound event, of one type |
| Project graph (`domain/project`, `graph`, `event_registry`, `route_geometry`) | tracks, nodes, edges, events, start node | add, remove, restore, connect, … | commands | edges to removed nodes or inputs; undo of removals | no dangling edge; undo restores exactly |
| Tracks and staves (`domain/track`, `staff_layout`) | tracks, archived or not, lanes of every node | add, archive, restore, hard remove | project, commands | every node must follow | each node has a lane per track |
| Command, group (`domain/command`, `command_transaction`) | lifecycle state, children | execute, undo, redo, compensations | project | one child fails; its compensation fails too | all or nothing until it faults |
| Command history (`domain/command_history`) | undo and redo stacks, provisional command, poisoned command | execute, begin/commit/abort, undo, redo, take one back, clear, recover | writer edit session, canvas | rollback fails; pushes in `noexcept` functions | project = replay of the history |
| ~75 concrete commands (`domain/*_command`) | snapshots of what they replaced | execute, undo, redo | project | multi-step undo that stops half-way | contract of `command.hpp` |
| Timeline and measures (`domain/measure_map`, `node_timeline`, `tempo_lane`, `clef_lane`) | measures, tempo and clef changes, pickdown | insert, delete, resize measure; set tempo, clef, pickdown | notation content | everything anchored to a position must move | the music of a measure stays in it |
| Notation content (`domain/voice_content`, `notation_markings`, `tie_chain`) | voices as gapless event sequences, ties, markings | edits on ranges, notes, tuplets | commands, clipboard | ties and markings across edits | no gap, no dangling reference |
| Clipboard (`domain/notation_fragment`, paste, cut, `selection_tool_handler_clipboard`) | fragments | copy, cut, paste at what is selected | commands | truncation at both ends, undo after other edits | exactly the range is replaced |
| Pickdown oracle (`domain/pickdown_bound_oracle`) | none | bound | compiler to come | long tails over short cycles | number of sounding tails bounded |
| Project validation (`domain/validation_service`) | none; its caller keeps the findings | validate all, validate changes | writer | findings about entities an edit did not name | incremental = complete |
| Selection and notation validation (`domain/selection`, `notation_validation`, `notation/notation_{selection,hit_resolution,staff_step,measure_edit}`) | none | validate, resolve a click, step to the next staff, follow an edit | commands, writer | what was selected outlives the edits that follow | a command never leaves an invalid voice, a click never selects what is not there |
| Layout, engraving, incremental cache (`src/notation`) | index, widths and fragments of every system | lay out, update | writer session | refreshed in the middle, shifted, partly redrawn | cache = cache of a new layout |
| Writer edit session (`writer_app/selection_tool_handler*`) | history, shown layout, step-entry cursor and its pitch reference | every edit: begin, refresh layout, commit or abort; undo and redo with roll-back | history, layout | publication fails after the project changed | what is shown is the project |
| Selection tool (`writer_app/selection_tool_handler_{pointer,range,keys}`, `notation/notation_*selection`) | tool, drags, selection, staff scope, focus edge, highlight | press, move, release, cancel, tool switch, extend | edit session, shell | releases that never come, tools switched in a drag | the selection is what hand and keys meant |
| Canvas (`src/canvas`) | spatial index, damage, scene, controllers' sessions | layout, drag, attach, retype, inspect, hit tests | history | cancelled drags, undo beneath a controller, routes | index exact, damage complete, scene fresh |
| Gestures and window (`writer_app/canvas_gesture_handler`, `src/writer_shell`) | view, pointer, fingers, modifiers, texture, frames | SDL events, text input, frames | canvas, selection tool | events wait while modifiers change; any SDL call fails | handled as held; resources kept |
| Notation playback, pickdown ownership and coordinates, core values | none | queries, arithmetic | compiler to come | numeric | - |
| Rendering, accessibility | presentation | - | - | - | - |
| Scheduler, compiler, loader, persistence, MIDI I/O, audio, VST host | stubs: no code yet | - | would drive the runtime classes | - | - |
| Runtime C ABI (`src/runtime/runtime.cpp`) | placeholder handles | placeholder entry points | - | - | - |

`PROJECT.json` lists the components with their status, and under `hazards` what
in this code is hard to test, line by line, with the properties that would catch
it going wrong.

## 2. Modules

    MidiStream  <--implements--  MidiOwnership  <--  MidiPlayback
    EventQueue  <--  NodeOutputs  <--  EventStateMachine
    PickdownPlayback                     ValidationService

    Command       <--implements--  CommandTransaction
    EditTimeline  <--implements--  CommandHistory
    EventQueue  <--  ProjectGraph  <--  GraphCommands

    VoiceContent  <--  VoiceIndex  <--  LayoutCache  <--.
         ^                 ^--  VoiceEditing            |
         |                 ^---------.                  |
    NotationValidation  <--  NotationCommands  <--  WriterSession
         ^
    VoiceClipping  <--  Selection  <--  Clipboard  <--  ScoreEditing
    NodeTimeline   <------'

    CanvasScene    CanvasEditing    WriterShell    SelectionTool

(`<--` is EXTENDS.) Each `X_proofs` extends `X`,
MidiOwnership_proofs `MidiPlayback` and WriterInput_proofs `SelectionTool` and
`WriterShell`. **Subsequences**, which several
of the specifications use, has the elements of a sequence that are in a set, with
the lemmas about them.

An operator named `Def_Suffix`, standing just before `Def`, is `Def` with one
plausible bug. No specification uses it; substituted for `Def` it must make the
property it is paired with in `PROJECT.json` fail, which shows that the property
says something about the code.

### Playback

**MidiOwnership** is `MidiOwnershipTracker`, one variable per member map and one
action per mutating method. The tracker emits nothing: it returns records, and
whoever calls it sends the messages. The model applies every record at once to a
*receiver* (`sounding`, `cc64`) which sees nothing else, so that an unreported or
doubly reported transition becomes a receiver that disagrees with the tracker.
`release_note`, `pedal_up` and the sweeps accept any id, stale or unknown, and
`generate()` is a choice of an id not yet `minted`. `panic()` and `clear_all()`
have one body in the code and one action here. `release_where` erases in a loop;
the loop's order is not observable (its result is sorted), so it is one step.
**MidiStream** says what a listener is promised, with no map or counter in sight:
an attack starts a note once and cuts what sounded there, notes end, and CC64 is
down exactly while a logical span is held. **MidiPlayback** adds the caller. The
scheduler is a stub, so its protocol is the one the header's overview writes
down: main scope only for the active node, tail scope only for an open snapshot,
a boundary begins a tail, transfers, then enters its destination. A behaviour has
one caller from its first step on: one that keeps that protocol (`obliging`), or one
that calls anything with anything.

**EventQueue** gives `record`, `peek`, `consume` and the dropped counter as
operators on the sequence of pending arrival ordinals. **NodeOutputs** has what
the state machine reads of a node (outputs in vector order, type, binding,
destination, listeners) and its mutators. **EventStateMachine** is the class of
that name over such nodes. `resolve_sequential_transition` is `CrossBoundary`, a
disjunction of its four ways out (`EventTier`, `StopTier`, `ManualTier`,
`RandomTier`) that exclude one another as the early returns do. The PRNG is a
free choice among outputs with a share. Any edit of a node may fall between any
two transport steps; the caller clears the queue of a listener it removed, as
the header requires of it.

**PickdownPlayback** lets a node play to its boundary, leave its pickdown
sounding as a tail, and start the next; a vertical jump carries the position over
to a node with the same measures. Time passes in one unit of musical position
for the active node and all tails, which is the case `pickdown_bound_oracle` is
for.

### Commands and the graph

**Command** is the contract of `command.hpp`: the lifecycle and how much of the
edit the project holds. **CommandTransaction** is the group: a child's call may
fail at any position, and so may any subset of the compensations. The project is
the sequence of the children's edits it holds. **EditTimeline** is undo and redo
without stacks: one line of edits, a cursor, at most one edit on trial.
**CommandHistory** is `CommandHistory` with its `Transaction`. A command is a
leaf, whose failed call changes nothing, or a group, which may fault and leave a
part of its edit. `abort()` and the destructor of an abandoned transaction do the
same and are one action. `undoRoom` and `redoRoom` are the vectors' capacities,
since `commit()` and the roll-backs push into them inside `noexcept` functions.
The caller is the writer session (`selection_tool_handler.cpp:231-278`): after an
undo it publishes the layout or takes the undo back at once.

**ProjectGraph** is the authoring model, `Project`, `Graph`, `Node` and
`EventRegistry`, as operators on one project value. Each mutator returns an
*outcome*, the project it leaves and whether it succeeded; `Then` and `ForEach`
chain them with the early return the code has, keeping what earlier calls did.
**GraphCommands** is the commands on that model, the scalar attributes included,
each with its execute, undo and redo, and with the allocations that can fail
after its first change. A done command is the record of what its `execute` saved.
Its undo is an operator on *any* project, which may be refused half-way: that it
is not, and that it gives the project back, are properties. `UndoIsInverse`
compares with a project replayed from the first one, so that it speaks about undo
and redo of every command nested in every way.

### Notation

**VoiceContent** is the class of that name as operators: the events of a voice,
gapless and in order, and the five families of references anchored to events by
id (slurs, beams, hairpins and dynamics, grace groups). A mutator returns whether
it was accepted, the content and the delta for the revision ring.
**VoiceIndex** is the index the incremental layout keeps of a voice: which events
begin in which measure, which references touch it, where to resume in the middle
of the voice; built anew, or refreshed over a range of measures with the deltas
the voice recorded since. **VoiceEditing** edits a voice through its mutators and
keeps the index as the header asks. **LayoutCache** adds widths and the fragment
drawn of every system, and which systems an update redraws. What a fragment shows
is abstracted to what it was drawn from.

**NotationValidation** is what commands require of the voice they leave behind.
**NotationCommands** is the commands on one voice, those on single noteheads
included, with the factories that offer them; **WriterSession** runs them as the
writer does: it declares the measures to lay out again, executes, refreshes the
layout, and commits the edit or takes it back, any of which may fail; with undo,
redo and the step-entry cursor whose pitch reference must belong to an edit that
still stands.

**NodeTimeline** is measures, pickdown, tempo and clefs; **VoiceClipping** takes a
voice apart at two positions and puts it together again. **Selection** is what can
be selected in a node: what each arm of a `Selection` must find there, what a click
resolves to (of the things drawn at a point, every one), the caret, the anchor and
the neighbouring staff it leads to, and what an edit of the measures makes of it.
**Clipboard** copies a selection into a fragment, pastes and cuts. **ScoreEditing** is these commands on
one node and their undo, which requires the scope a command captured to be as the
command left it.

**ValidationService** is the diagnostics of a project, complete and incremental,
and a cache of findings kept the way `validation_service.hpp` asks of a caller: an
editor changes the project, reports the ids it changed, and replaces from time to
time what the report covers.

### The writer's surface

**CanvasScene** is `SparseSpatialIndex`, a tree of bounding boxes in an array with
a free list, node by node with its rotations, and the coalescing regions of
`BoundedInvalidation`. **CanvasEditing** is the scene laid out from a project, with
the automatic routes of connectors, and the controllers that edit the project
through its history and keep the scene in step: drag, attachment, type, inspector.
Each may act between any two steps of another, and so may undo, redo, a
transaction somebody else holds open, the removal of a node and a new layout.
**WriterShell** is the view under pointer, wheel, pinch, finger and key events, and
the window around it: SDL's queue of events, each stamped with the modifiers when it
happened, text input, the texture, and every call that may fail. **SelectionTool** is press, move, release and cancel in both tools, the
extension of a range, the tool switch, and what points and spans resolve to.

## 3. Runs

Components that share no state run side by side in one configuration, as parts
that are never active together, so that a run costs the sum of its parts and not
their product.

| Run | Question | States |
|---|---|---|
| `midi` | Do arbitrary calls keep the tracker and its receiver consistent, and implement `MidiStream`? Under the documented protocol, is anything orphaned, is a pedal ever stuck, does a jump cut exactly main material? | 63 k |
| `event_machine` | Four outputs compete at boundaries, two nodes jump to each other, a node is edited between any two steps: precedence, consumption, one jump per instant, listeners, queue contents | 169 k |
| `pickdown_playback` | Do the tails that sound stay within the oracle's bound? | 0.9 k |
| `commands` | Groups whose children and compensations fail in every combination; a history of leaves and groups through every operation; every command of the graph under every mix of undo and redo, with failing allocations | 197 k |
| `caches` | Is a cache of diagnostics, and the layout's index of a voice, what it would be if made anew? Do edits stay local? | 115 k |
| `writer_session` | Does the layout follow the voice through every edit, failure, undo and redo; has the cursor's pitch reference an edit; can every note be edited? | 31 k |
| `score_editing` | Measures, pickdown, clefs, tempo, pedals, copy, cut and paste, and their undo; does what a click selects hold, lead somewhere, and survive? | 4 k |
| `canvas` | Scene, controllers, gestures, window and selection tool | 312 k |
| `clipboard_undo` | Can a cut or paste always be undone? (No: finding 1) | small |
| `voice_tail` | Does a refreshed index equal a built one in the pickdown tail too? (No: finding 2) | small |
| `writer_stale` | Does every edit show? (No: finding 3) | small |
| `validation_report` | Does an incremental report hold every finding of what it covers? (No: finding 4) | small |

### Bounds, and why they are enough

*midi*: two channels and two pitches, two spans, one notated in the main region
and one in the pickdown of a node, so that one may remain when the other lifts;
three attacks, so that a superseded one, its successor and a stranger coexist;
two snapshots, where a cycle opens a second tail over the first.

*event_machine*: four outputs give two that share an event, one that ties with
them in priority and one above; four occurrences overfill a FIFO of two and leave
the overflow's survivors to compete; two nodes jump to each other and to
themselves. `MaxOrdinal` and `MaxInstant` bound counters that only grow; `Small`
bounds the edited node to two outputs, of which the second leads nowhere once a
second occurrence is recorded, and one event, which reach every branch of every
mutator; `Timed` lets the clock stand still where nothing can jump.

*pickdown_playback*: four nodes of two kinds of measures, pickdowns longer than
the shortest cycle, `MaxCrossings` boundaries.

*commands*: six children put a failing child in the middle with several
compensations on either side. Two leaves and two groups, each command object used
once as `unique_ptr` has it; four commands reach a poisoned history over non-empty
stacks of both kinds. The first project of the graph has what the undo code
distinguishes: a self-loop, an inbound edge with a drawn route, a route without an
edge, two outputs on one listener with a policy that is not the default, a start
node, a lane with music, an archived track and a node made since. From there two
commands suffice to make the second meet what the first left. `MaxEdits` bounds
the commands on the two stacks together, not the steps: undo and redo go on for
ever.

*caches*: a node is one of six values, each with one kind of finding that another
node's change can make or unmake; two projects; two edits pending at most, and the
bound `Small`, under which project edits come when fewer than two nodes exist. The
voice has two measures of four units and a tail of two, with references that cross
the boundaries; two edits, two updates, one range each.

*writer_session*: three measures and a tail, in two systems, so that a reference
leads from one into the other; `Selected` starts notes; two edits; `PoisonBelow`
keeps the states after a failed recovery to short histories.

*score_editing*: two meters of different length and a pickdown; three tracks, one
with a stave that only the layout has and one archived; two voices; what is copied
and cut begins and ends at, before and inside events, ties and pedals, and is pasted
at a caret, a note, a range and whole measures of one and of two staves; every click
in every state; two edits on the history, of
which with something on the clipboard the last is a paste. Nothing is executed or
copied while something can be redone, and a clipboard is not copied over: neither
changes what a command finds.

*canvas*: six items make every rotation of the tree and reuse of a freed slot;
three valid boxes and an invalid one overlap, touch and are apart; two regions reach
the cap. A courtyard of four nodes encloses connectors, and two edits let one act
beneath a controller. The window has five pointer, five finger, three key and two
window events, two at most in the queue, which is empty when the fifth event of a
finger comes; two points are enough for a finger to land on either side of another;
three fingers are one more than a pinch takes. The
tool has three staves and two voices, of which a stave or a voice can drop out and
come back under the selection, two measures of different length, and a point that
is not finite, one on a note and two in the area of different measures; a measure
drag that outlived its press (section 5) is followed through every later call, and
the accessible staff scope is given in order.

`CHECK_DEADLOCK FALSE` appears where behaviours end by design: ids, occurrences,
command objects or bounded edits are used up, playback has stopped.

No fairness is assumed and no liveness is stated: every class here acts only when
called, and the code that will call them at certain times, the scheduler, does
not exist. A liveness property would be a statement about an assumption.

## 4. Proofs

TLAPS proves, for every value of the constants that the named assumptions allow:

**MidiOwnership_proofs** (any channels, pitches, nodes, spans and ids): the types,
the inverse maps, `ReceiverHearsOwners`, the pedal counts, `PedalIsLogicalOr`, the
action property `CutAttacksStaySilent`, and the refinement of `MidiStream`. The
invariants are not inductive one by one. That the receiver hears the owners is kept
by `attack_note` only because the lookup is the inverse of the owner map, and that a
cut attack stays silent needs that every owner was minted, so that `generate()`
cannot return it again:

    IInv == TypeOK /\ LookupIsInverse /\ ReceiverHearsOwners /\ OwnersMinted
                   /\ PedalCountExact /\ PedalIsLogicalOr

in two halves, notes and pedals, that only typing connects. The pedal half rests on
cardinality: the sweep takes away exactly the spans it matches, so that the unsigned
counter never wraps. Assumed: `SpansFinite` (a count exists), `IdsAreTyped` (attack
and snapshot ids are different C++ types), `NoneIsFresh` (`nullopt` is no value).

Of a caller that keeps the protocol of the header (`MidiPlayback`) the same module
proves that every note and span the tracker holds can still be reached, that no pedal
is held without a span that has started and not ended, and that a jump cuts exactly
the main material of the node it leaves. These speak about the caller's history, and
so the invariant ties that history to the tracker's maps, in both directions:

    ObligedInv == TransferIsOwed /\ EveryEntryReachable /\ MainIsRecent /\ SpansAreLogical

`MainIsRecent` is the half that matters: what main owns is *exactly* what main
material struck since the active node was entered. That a cycle may come back to a
node whose tail still sounds does not break it only because the transfer renames the
scope of every entry before the node is entered again. Assumed: `NotatedMaterial`,
that every span is notated in one of the nodes, some of them in pickdowns.

**EventStateMachine_proofs** (any nodes, outputs, events, capacities, priorities,
with edits between any two transport steps): `ListenersAreSound`,
`OneJumpPerInstant`, `BoundaryPrecedence`, `OneOccurrencePerDecision`,
`JumpWinnerIsFirstBest`, `QueueReflectsArrivals`. The strengthening is that an output
has one home, listeners mirror the bindings and have room for what they hold,
what pends was recorded under the current binding, and the record of a jump is never
in the future; without the first, editing one node could take a listener from
another, and without the last a jump could be licensed twice.
`OneOccurrencePerDecision` goes both ways: a boundary that event intent decides takes
exactly one occurrence, the front of the winner's queue, and nothing else takes any;
what it needs of the invariant is that the winner's queue holds something.
`QueueReflectsArrivals` has an invariant of its own, `ArrivalsInv`. Assumed: `StateMachineConstants`,
`ConfigsAreSound` (the first graph is one the editor can make).

**PickdownPlayback_proofs** (any graph): a vertical jump keeps the musical position
(`MapIsIdentity`), no node has two tails, and so the oracle's bound is sound. One
tail per node is inductive only with `AgeCoversPosition`: a tail has sounded at least
as long as the active node has played, through boundaries and jumps alike.

**Command_proofs**. Groups of any size, any calls and compensations failing: all or
nothing until it faults, edits in insertion order, refinement of `Command`
(`ImplementsCommand`). A history of any commands: `ProjectIsReplay`, the refinement
of `EditTimeline`, and that no push of `commit()` or a roll-back allocates
(`PushesAreReserved`, stated by no run). The invariant places each command once and
gives each place the states it allows:

    IInv == TypeOK /\ OneAtATime /\ SlotsAhead /\ Placed /\ Phases
                   /\ ProjectIsReplay /\ PushesAreReserved

**ValidationService_proofs** (any projects, nodes and findings): `CacheIsCurrent` and
`ReportIsExactWhereNamed`. A cache cannot be current while changes wait, so what is
inductive is a debt: whatever the cache and a complete pass disagree on, in either
direction, is covered by a change that is still to be validated
(`StaleIsCovered`, `MissingIsCovered`). Its cases are those of the header's table of
which change covers what; TLC checked it before it was proved. Assumed:
`ValuesAreFormed`, the shape of the constants.

**WriterInput_proofs** (any score, staves, points and order of input; any queue,
surfaces, fingers and failures of SDL):

- `SelectionIsMeant`, of every step of the selection tool, from the invariant of its
  states `ToolInv`: while no measure drag is stray, there is a drag in progress as long as
  a release is awaited, and it is that of the press (`GestureIsHeld`), so that a release
  neither commits what another press began nor drops its own; a selected range lies in the staff
  scope that its extension starts from (`RangeIsScoped`); the highlight is current.
  Without the second, moving an edge would rebuild the range between other staves
  and lose voices.
- `ResourcesAreKept`, from the types and `ResourceInv`, which says for every stage of
  the window what exists and is composing, however an upload or the opening fails.
- `HandledAsHeld` and `GesturesFollowHands`, which are about events that wait. Neither
  is inductive: what the shell holds, sees and tracks is out of date by exactly what is
  in the queue. So the invariants are about the queue: the modifiers stamped on an
  event are those the last key or focus event before it turned them to, or the shell's
  if there is none (`HeldInv`); a press or release lies where the pointer event
  before it lay (`PointerInv`); a finger is where the last of its own events that
  waits puts it, or where its slot says (`FingerInv`). Each is proved kept when an
  event joins the queue at its end and when one leaves it at its head.

Assumed: `ScoreIsFormed`, `SpotsAreFormed`, `UnsetIsNoPress` and `WindowIsFormed`, the
shape of the constants (`nullopt` is no value, positions are integers).

**ScoreEditing_proofs** (any start node, layout and selections, any content of the
voices): `UndoRestores`, and under it `HistoryIsAChain`. A command captures a scope of
the node, not the node, and undo puts back that scope alone. That this gives the node
as it was is a fact about each command: the node it leaves differs from the one before
within its scope only (`PedalsRestorable`, `VoiceRestorable`, `CutRestorable`,
`PasteIntoRestorable`, ...). A paste is the case that is easy to get wrong: it changes
lanes of tracks that the anchor names by ordinals, adds staves that a lane lacks, and
reasserts a clef behind the range, so that its scope must name the staves whose clefs
turn out different. `UndoRestores` speaks about the last entry only, and after an undo
the last entry is another; so what is inductive is about all of them:

    HistoryHolds == IsNode(node), each entry of `done' and `undone' is Restorable,
                    and the snapshots are one chain that meets at the node

It shows too that the stale-context checks never refuse: an undo is refused by the
validation of what it puts back, or not at all (finding 1 is such a refusal). The
proof needs no fact about how a voice is rebuilt, only where the result is put.
Assumed: `StartIsNode`, the shape of the first node, and `SelectionConstants`, in
which the staves of two tracks differ (`project.hpp:72`).

**Subsequences** has the lemmas on sequences these rest on. The library's induction
theorems take an operator as a parameter, which the provers cannot instantiate, so
induction there is over a set: the elements that a fact holds of contain zero, or
the empty sequence, and are closed under the step.

Model-checked only: the graph commands, whose undo is a fold over the sequence of
what they saved; what the edits of voices, measures and the clipboard do to the music
(`MeasuresKeepTheirMusic`, `ExactlyTheRangeIsReplaced`), what selections hold
(`SelectionsHold`), and layout, which are computed by recursion over data, out of the
provers' reach; the scene's index, a tree in an array
that is searched recursively, and the routes, which rest on a search. Liveness and
ENABLED are beyond the prover and are not stated.

## 5. Findings

Those with a run:

1. **A cut or a paste that can no longer be undone** (`clipboard_undo`). Undo restores
   each voice through the validation that a new edit must pass. A pickdown changed
   since makes voices short that were complete, so that what undo would put back is
   refused, for ever, although nothing else has happened to the voices.
2. **An event that moves out of the tail** (`voice_tail`). The refresh of a voice's
   index removes the tail's records by where events begin now
   (`notation_index.cpp:387`), so that one that came to begin in the main region, or
   left it, in the same refresh is kept twice or lost.
3. **A slur that stays on the page** (`writer_stale`). Deleting the note at one end of
   a slur, or making it a rest, declares its own measures
   (`selection_tool_handler_layout.cpp:88`); the system of the other end keeps showing
   the slur until something else draws it again.
4. **A nil id hides findings** (`validation_report`). An entity with the nil UUID in a
   node that was not selected marks the nil scope as covered
   (`validation_service.cpp:266`), so that a caller who replaces what the report
   covers erases the findings of others; `validation_service.hpp:188` promises
   complete findings for the scope.

Seen while modelling, without a run of their own.

*Playback and commands*

- A cycle shares a pedal span with its own pickdown tail: `pedal_down` ignores a span
  that is active (`midi_ownership.cpp:92`), and the tail's `pedal_up` sends CC64 0 while
  the next iteration holds it; `docs/plan/README.md:79` says pedal-up emits only after
  the last logical span releases. The error is an early lift, never a stuck pedal.
- `restore_output` appends (`node.cpp:98`), so that undoing a removal changes the order
  by which `event_state_machine.hpp:62-67` breaks ties. `restore_track` appends and
  reindexes (`project.cpp:173`), where `archive_track_command.hpp:14` says "puts it back
  in place exactly".
- Several undos return at the first failing allocation and keep their state
  (`remove_input_connector_command.cpp:149` for one); `command.hpp:17` asks that a
  failing command leave the project unchanged. What is lost is edges, routes and
  listeners; nothing dangles.
- `Graph::remove_input` and `remove_event` reserve vectors (`graph.cpp:48`, `:77`), and
  six calls in `noexcept` functions stand outside any `try`
  (`remove_input_connector_command.cpp:86`, `:169`,
  `add_input_connector_command.cpp:59`, `register_event_command.cpp:43`,
  `remove_event_command.cpp:52`, `:116`): a failed allocation there ends the process.
- If a group's `execute()` fails and its rollback too, the history destroys the command
  with part of its edit in the project and poisons nothing; `command_history.hpp:146`
  says the model is unchanged. `ProjectIsReplay` makes the allowance.
- A listener switched from FIFO to a single-slot policy keeps an occurrence after a
  boundary; `event_queue.hpp:36` says `consume()` "always empties the queue". An output
  retyped to vertical and back keeps its listener with the occurrences recorded before
  (`node.cpp:204`); the header leaves it open.
- A group that faults while it is undone stays on the undo stack and refuses every
  further call, so that nothing beneath it can be undone.

*Notation*

- Expansion over one whole rest and part of the next is refused
  (`voice_content.cpp:696-734`); `voice_content.hpp:199-202` describes greedy consumption.
- Of two invalidations in one `update()` the first consumes the whole delta.
- `notation_layout.hpp:87`, "A failed update leaves the last successful snapshot intact":
  index and widths change before the layout can fail (`notation_cache.cpp:146-206`).
- Note entry over a barline lays out only the measure of the cursor. Deleting or
  inserting a measure, and beams over a system break, leave stale systems as finding 3
  does.
- Adding an interval to a note of a tuplet is always refused (`make_chord` drops the
  tuplet). A rest over a note that is tied into is refused, as `EventToRest` leaves the
  incoming tie. Cutting or pasting over part of a beam leaves members that are not
  contiguous and is refused. Two pedal spans that both cross the start of a selection
  make its copy refused.
- After the pickdown is cleared, a measure edit drops voice events that start past the
  end and refuses one that straddles it. Deleting a measure drops a clef or tempo change
  inside it; a paste drops a clef change exactly at its start.
- Inserting or deleting a measure fills every empty voice with rests.
- A repaired duplicate UUID stays blamed in a cache kept incrementally (`CacheIsCurrent`
  makes the allowance). A node removed and added again in one batch is reported as
  changed only, so that findings about what went with it are missed.

*The writer's surface*

- `cancel()` of a drag restores the place and the connectors of its beginning
  (`canvas.cpp:1064`). A connector that was attached or retyped during the drag is
  reverted in the scene, after which the controllers of connectors refuse until a new
  layout: `SceneIsFresh` checks that they can tell. Over a new layout during the drag,
  after an undo for instance, cancelling brings back a place and routes that may be
  wrong and that nothing detects; of such a scene (`stale`) nothing is claimed. Undo of
  connect, retype and rename leaves
  the scene stale until then, and an edge that cannot be routed keeps the controllers
  refusing. Only tests use these controllers so far.
- An event dropped by a failing conversion can leave a finger tracked, or a middle drag
  in progress, until the next cancel. In the path without a loop, a quit event clears
  the ordered modifiers while draining goes on.
- A measure drag survives a tool switch: `set_active_tool` clears the range drag and the
  pending press but not `measure_selection_drag_` (`selection_tool_handler.cpp:41-62`),
  although "Cancel is called on destruction and on tool switch"
  (`selection_tool_handler.hpp:44`).
  Press with the measure modifier, switch, release (ignored while entering notes), switch
  back: the release of the next drag selects measures from the stale anchor.
  `ReleaseIsMeant` and `PressIsHeld` make the allowance (`stray`), as a press of the
  other kind during a measure drag needs it too; everything else is claimed, and
  checked, with such a drag about.
- `extend_range_staff_scope` accepts its staves in reverse order and stores them so;
  after that Shift+Up and Shift+Down narrow the range where they should widen it
  (`ScopeGrows` speaks about scopes in order). The focus edge is not reset by a new drag,
  so that the first Shift+arrow may move either edge; from then on the other one stays
  (`EdgeIsKept`). A measure press that interrupts a
  drag leaves its highlight shown.
- After a failed restore, `previous_pitch_` may name a producer that has been undone;
  after an undo the cursor may stand where no caret is legal.

## 6. Not modelled, and the plan

Not modelled by choice: the geometry of engraving, the numerics of tempo curves,
playback mapping and the PRNG, rounding and overflow of doubles; 64-bit overflow in
`weighted_selection`; presentation, rendering and accessibility; the stubs; the
placeholder C ABI; the command palette; the contract for ordering messages of one sample
(`midi_ownership.hpp:269-400`), for which there is no code; pickdown ownership and
coordinates, which are pure classifications.

What could be proved next: that `ProjectGraph`'s operators keep `GraphIsSound`, one
lemma per operator, each an outcome that `Then` and `ForEach` chain; that the
controllers of `CanvasEditing` keep `SceneIsFresh`, as far as it does not speak about
routes; and that a failed edit leaves `WriterSession` as it was.
