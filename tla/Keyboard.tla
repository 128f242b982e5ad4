------------------------------ MODULE Keyboard ------------------------------
(***************************************************************************)
(* kbd.c: from the bytes of the keyboard to characters.  A key sends its   *)
(* code, an extended one (right Ctrl and Alt, the arrows) E0 before it; a  *)
(* release adds 128 to the code.  The driver keeps the modifiers in shift  *)
(* and takes one byte per call, later than the keyboard sent it.           *)
(*                                                                         *)
(* Keys has one key of each sort, <<extended, code>>.  Caps Lock does not  *)
(* repeat.  A character is "a", "A", "^A" ...; "no" is none.               *)
(***************************************************************************)
EXTENDS Naturals, Sequences, FiniteSets

CONSTANTS MaxHeld, MaxBytes

VARIABLES
  held, caps, doubled,   \* keys that are down; Caps Lock is on; modifiers with both keys down since it was off
  line,                  \* bytes on their way, each with the character its key stands for
  shift,                 \* kbdgetc
  typed                  \* the last character of kbdgetc, and the one that was meant

kvars == <<held, caps, doubled, line, shift, typed>>

\* shiftcode and togglecode; a code of 128 or more is an extended one
ShiftCode(d) == CASE d \in {29, 157} -> {"CTL"} [] d \in {42, 54} -> {"SHIFT"} [] d \in {56, 184} -> {"ALT"} [] OTHER -> {}
ToggleCode(d) == IF d = 58 THEN {"CAPSLOCK"} ELSE {}

\* normalmap, shiftmap and ctlmap, of a letter, a digit and an arrow
Normal(d)  == CASE d = 30 -> "a"  [] d = 2 -> "1" [] d = 200 -> "up" [] OTHER -> "no"
Shifted(d) == CASE d = 30 -> "A"  [] d = 2 -> "!" [] d = 200 -> "up" [] OTHER -> "no"
Control(d) == CASE d = 30 -> "^A" [] d = 200 -> "up" [] OTHER -> "no"
CharCode(mods, d) == IF "CTL" \in mods THEN Control(d) ELSE IF "SHIFT" \in mods THEN Shifted(d) ELSE Normal(d)

Letter == <<FALSE, 30>>  Caps == <<FALSE, 58>>
Keys == {<<FALSE, 29>>, <<TRUE, 29>>, <<FALSE, 42>>, <<FALSE, 54>>, <<TRUE, 56>>,
         Caps, Letter, <<FALSE, 2>>, <<TRUE, 72>>}
Data(k) == IF k[1] THEN k[2] + 128 ELSE k[2]
KeysOf(m) == {k \in Keys : m \in ShiftCode(Data(k))}
Modifiers == {"SHIFT", "CTL", "ALT"}

Init ==
  /\ held = {} /\ caps = FALSE /\ doubled = {} /\ line = <<>> /\ shift = {}
  /\ typed = [got |-> "no", meant |-> "no"]

-----------------------------------------------------------------------------
(* The keyboard.                                                           *)

Byte(b, meant) == [data |-> b, meant |-> meant]
Send(k, b, meant) ==
  /\ Len(line) < MaxBytes
  /\ line' = line \o (IF k[1] THEN <<Byte(224, "no")>> ELSE <<>>) \o <<Byte(b, meant)>>

\* the character on the key, with the modifiers that are held
Meant(k) ==
  LET mods == {m \in Modifiers : KeysOf(m) \cap held # {}} IN
  IF k = Letter /\ caps /\ "CTL" \notin mods THEN CharCode({"SHIFT"} \ mods, Data(k))
  ELSE CharCode(mods, Data(k))

Tracked ==
  doubled' = {m \in {"SHIFT", "CTL"} :
                KeysOf(m) \subseteq held' \/ (m \in doubled /\ KeysOf(m) \cap held' # {})}

Press(k) ==
  /\ \/ k \notin held /\ Cardinality(held) < MaxHeld
     \/ k \in held \ {Caps}                          \* it repeats
  /\ Send(k, k[2], IF doubled = {} THEN Meant(k) ELSE "any")
  /\ held' = held \cup {k} /\ caps' = (caps # (k = Caps /\ k \notin held)) /\ Tracked
  /\ UNCHANGED <<shift, typed>>

Release(k) ==
  /\ k \in held /\ Send(k, k[2] + 128, "no")
  /\ held' = held \ {k} /\ Tracked
  /\ UNCHANGED <<caps, shift, typed>>

-----------------------------------------------------------------------------
(* kbdgetc.                                                                *)

\* a release, and what it ends (mutant: not the E0 before it)
Released(d) == IF "E0ESC" \in shift THEN d ELSE d - 128
BadCleared(d) == ShiftCode(Released(d))
Cleared(d) == ShiftCode(Released(d)) \cup {"E0ESC"}

\* a byte below 128 (mutant: E0 is not forgotten)
BadUnescaped == shift
Unescaped == shift \ {"E0ESC"}

Pressed(d) == IF "E0ESC" \in shift THEN d + 128 ELSE d
Toggled(s, t) == (s \ t) \cup (t \ s)

\* Caps Lock, for letters only
Capital(c) == CASE c = "a" -> "A" [] c = "A" -> "a" [] OTHER -> c

Take == line # <<>> /\ line' = Tail(line) /\ UNCHANGED <<held, caps, doubled>>
Silent == typed' = [got |-> "no", meant |-> "no"]

Escape ==
  /\ Take /\ Head(line).data = 224 /\ shift' = shift \cup {"E0ESC"} /\ Silent

KeyUp ==
  LET d == Head(line).data IN
  /\ Take /\ d # 224 /\ d >= 128 /\ Silent
  /\ shift' = shift \ Cleared(d)

KeyDown ==
  LET b == Head(line) d == Pressed(b.data) c == CharCode(shift', d) IN
  /\ Take /\ b.data < 128
  /\ shift' = Toggled(Unescaped \cup ShiftCode(d), ToggleCode(d))
  /\ typed' = [got |-> IF "CAPSLOCK" \in shift' THEN Capital(c) ELSE c, meant |-> b.meant]

Next == Escape \/ KeyUp \/ KeyDown \/ \E k \in Keys : Press(k) \/ Release(k)

Spec == Init /\ [][Next]_kvars

-----------------------------------------------------------------------------

\* When the driver has caught up, no modifier is stuck, in whatever order and overlap keys
\* were pressed and released; and each that is held is on, unless both of its keys have
\* been down (the release of one of two Shift keys ends the other).
ModifiersHeld ==
  line = <<>> =>
    /\ "E0ESC" \notin shift
    /\ "CAPSLOCK" \in shift <=> caps
    /\ \A m \in Modifiers :
         /\ m \in shift => KeysOf(m) \cap held # {}
         /\ m \notin doubled => (m \in shift <=> KeysOf(m) \cap held # {})

\* Every character is the one on the key with the modifiers that were held when it was
\* pressed, however late the driver reads it, extended keys in between or not.
TypedAsMeant == typed.meant # "any" => typed.got = typed.meant
=============================================================================
