----------------------------- MODULE MidiStream -----------------------------
(***************************************************************************)
(* What MidiOwnershipTracker promises a listener, without the maps and     *)
(* counters it keeps (docs/plan/README.md, locked decisions):              *)
(*   - on one (channel, pitch) note-on and note-off alternate, each attack *)
(*     sounds at most once, and a retrigger is a note-off then a note-on;  *)
(*   - CC64 is down exactly while some logical pedal span is held.         *)
(***************************************************************************)
CONSTANTS NoteKeys, Channels, Spans, Attacks, None, Up, Down   \* Up, Down: CC64 values

VARIABLES
  sounding,  \* the attack heard on each key, or None
  struck,    \* every attack that has ever been switched on
  held,      \* the logical pedal spans down, as <<channel, span>>
  cc64       \* the sustain pedal of each channel

vars == <<sounding, struck, held, cc64>>

Init ==
  /\ sounding = [k \in NoteKeys |-> None]
  /\ struck = {}
  /\ held = {}
  /\ cc64 = [c \in Channels |-> Up]

(* A new attack starts on k; whatever sounded there is cut first. *)
Strike(k, a) ==
  /\ a \notin struck
  /\ struck' = struck \union {a}
  /\ sounding' = [sounding EXCEPT ![k] = a]
  /\ UNCHANGED <<held, cc64>>

(* Some notes end and some spans lift, at one instant. *)
LetGo ==
  /\ held' \subseteq held
  /\ cc64' = [c \in Channels |->
       IF \E s \in Spans : <<c, s>> \in held' THEN Down ELSE Up]
  /\ sounding' = [k \in NoteKeys |-> sounding'[k]]
  /\ \A k \in NoteKeys : sounding'[k] \in {sounding[k], None}
  /\ UNCHANGED struck

Press(c, s) ==
  /\ held' = held \union {<<c, s>>}
  /\ cc64' = [cc64 EXCEPT ![c] = Down]
  /\ UNCHANGED <<sounding, struck>>

Next ==
  \/ \E k \in NoteKeys, a \in Attacks : Strike(k, a)
  \/ \E c \in Channels, s \in Spans : Press(c, s)
  \/ LetGo

Spec == Init /\ [][Next]_vars
=============================================================================
