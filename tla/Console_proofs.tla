--------------------------- MODULE Console_proofs ---------------------------
(* The keyboard interrupt gives the reader what was meant, for any queue of   *)
(* scan codes and any interleaving with the thread; and the screen shows the  *)
(* line that is read, for a screen and a line of any size that fit.           *)
EXTENDS Console, TLAPS, WellFoundedInduction, SequenceTheorems

-----------------------------------------------------------------------------
(* The inductive invariant *)

Scan == [key : Keys, release : BOOLEAN, means : Typed]

\* The flags of the handler, and those of the person at the keyboard.
Flags == [l : BOOLEAN, r : BOOLEAN, caps : BOOLEAN]
KernelFlags == [l |-> lshift_pressed, r |-> rshift_pressed, caps |-> caps_lock_active]
UserFlags == [l |-> "lshift" \in held, r |-> "rshift" \in held, caps |-> light]

\* What the handler makes of a scan code: its flags, and the character.
After(scan, g) ==
  [l |-> IF scan.key = "lshift" THEN ~scan.release ELSE g.l,
   r |-> IF scan.key = "rshift" THEN ~scan.release ELSE g.r,
   caps |-> g.caps # (scan.key = "caps" /\ ~scan.release)]
CharOf(scan, g) ==
  IF scan.release \/ scan.key \in Shifts \cup {"caps"} THEN Nul
  ELSE Ascii(scan.key, g.l \/ g.r, g.caps)

\* The flags before each scan code in the queue, from those of the handler to
\* those of the person, give each the character it was typed for.
Replays(h, q) ==
  /\ h \in [1..(Len(q) + 1) -> Flags]
  /\ \A i \in 1..Len(q) : h[i + 1] = After(q[i], h[i]) /\ q[i].means = CharOf(q[i], h[i])

Agreed ==
  \E h : Replays(h, queue) /\ h[1] = KernelFlags /\ h[Len(queue) + 1] = UserFlags

KeyTypes ==
  /\ lshift_pressed \in BOOLEAN /\ rshift_pressed \in BOOLEAN /\ caps_lock_active \in BOOLEAN
  /\ light \in BOOLEAN /\ held \subseteq Shifts /\ queue \in Seq(Scan)

KeyInv == KeyTypes /\ Agreed /\ KeysAsMeant

-----------------------------------------------------------------------------
(* One key *)

LEMMA FlagsTyped == KeyTypes => KernelFlags \in Flags /\ UserFlags \in Flags
BY DEF KeyTypes, KernelFlags, UserFlags, Flags

LEMMA AfterTyped ==
  ASSUME NEW scan \in Scan, NEW g \in Flags
  PROVE  After(scan, g) \in Flags
BY DEF After, Flags, Scan

\* A key gives what its top says, and moves the flags as the person sees them.
LEMMA KeyPressed ==
  ASSUME KeyTypes, NEW key \in Keys, NEW scan,
         scan = [key |-> key, release |-> FALSE, means |-> Means(key)],
         held' = held \cup ({key} \cap Shifts), light' = (light # (key = "caps"))
  PROVE  scan \in Scan /\ scan.means = CharOf(scan, UserFlags) /\ UserFlags' = After(scan, UserFlags)
<1>0. /\ light \in BOOLEAN /\ held \subseteq {"lshift", "rshift"}
      /\ key \in {"lshift", "rshift", "caps", "a", "1", "ctrl", "enter", "back"}
      /\ held # {} <=> "lshift" \in held \/ "rshift" \in held
  BY DEF KeyTypes, Keys, Shifts, Enter, Back
<1>1. scan.means = CharOf(scan, UserFlags)
  <2>1. CASE key \in {"lshift", "rshift", "caps"}
    BY <1>0, <2>1 DEF Means, CharOf, Shifts
  <2>2. CASE key \in {"a", "1", "ctrl", "enter", "back"}
    BY <1>0, <2>2
    DEF Means, CharOf, Shifts, Ascii, kbd_us_normal, kbd_us_shift, UserFlags, Enter, Back, Nul
  <2> QED
    BY <1>0, <2>1, <2>2
<1>2. UserFlags' = After(scan, UserFlags)
  <2>1. CASE key = "lshift"
    <3>1. "lshift" \in held' /\ ("rshift" \in held' <=> "rshift" \in held) /\ (light' <=> light)
      BY <1>0, <2>1 DEF Shifts
    <3> QED
      BY <1>0, <2>1, <3>1 DEF UserFlags, After
  <2>2. CASE key = "rshift"
    <3>1. "rshift" \in held' /\ ("lshift" \in held' <=> "lshift" \in held) /\ (light' <=> light)
      BY <1>0, <2>2 DEF Shifts
    <3> QED
      BY <1>0, <2>2, <3>1 DEF UserFlags, After
  <2>3. CASE key \notin Shifts
    <3>1. held' = held
      BY <2>3
    <3> QED
      BY <1>0, <2>3, <3>1 DEF UserFlags, After, Shifts
  <2> QED
    BY <2>1, <2>2, <2>3 DEF Shifts
<1>3. Means(key) \in Typed
  BY <1>0 DEF Means, Typed, Shifts, Nul, Enter, Back
<1> QED
  BY <1>1, <1>2, <1>3 DEF Scan

LEMMA KeyReleased ==
  ASSUME KeyTypes, NEW key \in held \cup {"ctrl"}, NEW scan,
         scan = [key |-> key, release |-> TRUE, means |-> Nul],
         held' = held \ {key}, light' = light
  PROVE  scan \in Scan /\ scan.means = CharOf(scan, UserFlags) /\ UserFlags' = After(scan, UserFlags)
<1>1. scan \in Scan
  BY DEF KeyTypes, Scan, Keys, Shifts, Typed
<1>2. scan.means = CharOf(scan, UserFlags)
  BY DEF CharOf
<1>3. UserFlags' = After(scan, UserFlags)
  BY DEF UserFlags, After, KeyTypes, Shifts
<1> QED
  BY <1>1, <1>2, <1>3

\* The handler moves its flags and stores the character, or keeps both.
LEMMA ScanHandled ==
  ASSUME KeyTypes, NEW scan \in Scan, keyboard_handle_scan(scan)
  PROVE  /\ KernelFlags' = After(scan, KernelFlags)
         /\ keybuffer' = IF CharOf(scan, KernelFlags) = Nul THEN keybuffer
                         ELSE CharOf(scan, KernelFlags)
         /\ meant' = IF scan.means = Nul THEN meant ELSE scan.means
<1>1. keybuffer' = IF CharOf(scan, KernelFlags) = Nul THEN keybuffer ELSE CharOf(scan, KernelFlags)
  BY DEF keyboard_handle_scan, CharOf, KernelFlags
<1>2. KernelFlags' = After(scan, KernelFlags)
  BY DEF keyboard_handle_scan, LeftShiftAfter, RightShiftAfter, KernelFlags, After
<1>3. meant' = IF scan.means = Nul THEN meant ELSE scan.means
  BY DEF keyboard_handle_scan
<1> QED
  BY <1>1, <1>2, <1>3

-----------------------------------------------------------------------------
(* The queue *)

\* The first scan code finds the flags of the handler as they were replayed.
LEMMA QueueHead ==
  ASSUME KeyTypes, Agreed, queue # <<>>, NEW scan, scan = Head(queue),
         queue' = Tail(queue), KernelFlags' = After(scan, KernelFlags), UserFlags' = UserFlags
  PROVE  scan \in Scan /\ scan.means = CharOf(scan, KernelFlags) /\ Agreed'
<1> DEFINE n == Len(queue)
<1>1. PICK h : Replays(h, queue) /\ h[1] = KernelFlags /\ h[n + 1] = UserFlags
  BY DEF Agreed
<1>2. /\ queue \in Seq(Scan) /\ n \in Nat /\ n >= 1 /\ scan = queue[1] /\ scan \in Scan
      /\ Tail(queue) \in Seq(Scan) /\ Len(Tail(queue)) = n - 1
      /\ \A i \in 1..(n - 1) : Tail(queue)[i] = queue[i + 1]
  BY DEF KeyTypes
<1>3. scan.means = CharOf(scan, KernelFlags) /\ h[2] = KernelFlags'
  BY <1>1, <1>2 DEF Replays
<1> DEFINE rest == [i \in 1..n |-> h[i + 1]]
<1>4. Replays(rest, Tail(queue))
  <2>1. rest \in [1..n -> Flags]
    BY <1>1, <1>2 DEF Replays
  <2>2. ASSUME NEW i \in 1..(n - 1)
        PROVE  /\ rest[i + 1] = After(Tail(queue)[i], rest[i])
               /\ Tail(queue)[i].means = CharOf(Tail(queue)[i], rest[i])
    BY <1>1, <1>2 DEF Replays
  <2> HIDE DEF rest
  <2> QED
    BY <1>2, <2>1, <2>2 DEF Replays
<1>5. rest[1] = KernelFlags' /\ rest[Len(Tail(queue)) + 1] = UserFlags'
  BY <1>1, <1>2, <1>3
<1> HIDE DEF rest
<1> QED
  BY <1>2, <1>3, <1>4, <1>5 DEF Agreed

\* A scan code sent last is replayed last.
LEMMA QueueAppend ==
  ASSUME KeyTypes, Agreed, NEW scan \in Scan, queue' = Append(queue, scan),
         scan.means = CharOf(scan, UserFlags), UserFlags' = After(scan, UserFlags),
         KernelFlags' = KernelFlags
  PROVE  Agreed'
<1> DEFINE n == Len(queue)
           q == Append(queue, scan)
<1>1. PICK h : Replays(h, queue) /\ h[1] = KernelFlags /\ h[n + 1] = UserFlags
  BY DEF Agreed
<1>2. /\ n \in Nat /\ q \in Seq(Scan) /\ Len(q) = n + 1 /\ q[n + 1] = scan
      /\ \A i \in 1..n : q[i] = queue[i]
  BY DEF KeyTypes
<1>3. UserFlags \in Flags /\ UserFlags' \in Flags
  BY FlagsTyped, AfterTyped
<1> DEFINE more == [i \in 1..(n + 2) |-> IF i <= n + 1 THEN h[i] ELSE UserFlags']
<1> HIDE DEF q
<1>4. Replays(more, q)
  <2>1. more \in [1..(n + 2) -> Flags]
    BY <1>1, <1>2, <1>3 DEF Replays
  <2>2. ASSUME NEW i \in 1..(n + 1)
        PROVE  more[i + 1] = After(q[i], more[i]) /\ q[i].means = CharOf(q[i], more[i])
    <3>1. CASE i <= n
      <4>1. more[i + 1] = h[i + 1] /\ more[i] = h[i] /\ q[i] = queue[i]
        BY <1>2, <3>1
      <4> QED
        BY <1>1, <1>2, <3>1, <4>1 DEF Replays
    <3>2. CASE i = n + 1
      <4>1. more[i + 1] = UserFlags' /\ more[i] = UserFlags /\ q[i] = scan
        BY <1>1, <1>2, <3>2
      <4> QED
        BY <4>1
    <3> QED
      BY <1>2, <3>1, <3>2
  <2> HIDE DEF more
  <2> QED
    BY <1>2, <2>1, <2>2 DEF Replays
<1>5. more[1] = KernelFlags' /\ more[Len(q) + 1] = UserFlags'
  BY <1>1, <1>2
<1> HIDE DEF more
<1> QED
  BY <1>4, <1>5 DEF Agreed, q

-----------------------------------------------------------------------------
(* The steps *)

LEMMA InitKeys == Init => KeyInv
<1> SUFFICES ASSUME Init PROVE KeyInv
  OBVIOUS
<1>0. /\ ~lshift_pressed /\ ~rshift_pressed /\ ~caps_lock_active /\ ~light
      /\ held = {} /\ queue = <<>> /\ keybuffer = Nul
      /\ {lshift_pressed, rshift_pressed, caps_lock_active, light} \subseteq BOOLEAN
  BY DEF Init
<1>1. KeyTypes
  BY <1>0 DEF KeyTypes
<1>2. Agreed
  <2> DEFINE h == [i \in 1..1 |-> KernelFlags]
  <2>1. queue = <<>> /\ Len(queue) = 0 /\ KernelFlags = UserFlags
    BY <1>0 DEF KernelFlags, UserFlags
  <2>2. Replays(h, queue)
    BY <1>1, <2>1, FlagsTyped DEF Replays
  <2>3. h[1] = KernelFlags /\ h[Len(queue) + 1] = UserFlags
    BY <2>1
  <2> HIDE DEF h
  <2> QED
    BY <2>2, <2>3 DEF Agreed
<1>3. KeysAsMeant
  BY <1>0 DEF KeysAsMeant
<1> QED
  BY <1>1, <1>2, <1>3 DEF KeyInv

\* A step that leaves the flags and the queue alone.
LEMMA NoKeyStep ==
  ASSUME KeyInv, KeysAsMeant',
         UNCHANGED <<lshift_pressed, rshift_pressed, caps_lock_active, held, light, queue>>
  PROVE  KeyInv'
<1>1. KernelFlags' = KernelFlags /\ UserFlags' = UserFlags
  BY DEF KernelFlags, UserFlags
<1> QED
  BY <1>1 DEF KeyInv, KeyTypes, Agreed

LEMMA KernelKeys == KeyInv /\ (Kernel \/ TimerInterrupt \/ UNCHANGED vars) => KeyInv'
<1> SUFFICES ASSUME KeyInv, Kernel \/ TimerInterrupt \/ UNCHANGED vars PROVE KeyInv'
  OBVIOUS
<1>1. UNCHANGED <<lshift_pressed, rshift_pressed, caps_lock_active, held, light, queue>>
  BY DEF Kernel, Boot, Halt, get_char, ClearAndUse, Prompt, TimerInterrupt, vars, keyboard, user
<1>2. KeysAsMeant'
  <2>1. CASE get_char \/ ClearAndUse
    BY <2>1 DEF get_char, ClearAndUse, KeysAsMeant
  <2>2. CASE Boot \/ Halt \/ \E text \in Outputs, cls \in BOOLEAN : Prompt(text, cls)
    BY <2>2 DEF KeyInv, KeysAsMeant, Boot, Halt, Prompt, keyboard
  <2>3. CASE TimerInterrupt \/ UNCHANGED vars
    BY <2>3 DEF KeyInv, KeysAsMeant, TimerInterrupt, AfterInterrupt, vars, keyboard, thread
  <2> QED
    BY <2>1, <2>2, <2>3 DEF Kernel
<1> QED
  BY <1>1, <1>2, NoKeyStep

LEMMA InterruptKeys == KeyInv /\ KeyboardInterrupt => KeyInv'
<1> SUFFICES ASSUME KeyInv, KeyboardInterrupt PROVE KeyInv'
  OBVIOUS
<1> DEFINE scan == Head(queue)
<1>1. /\ queue # <<>> /\ queue' = Tail(queue) /\ keyboard_handle_scan(scan)
      /\ held' = held /\ light' = light /\ c' = c /\ pc' = AfterInterrupt
      /\ KeyTypes /\ Agreed /\ KeysAsMeant
  BY DEF KeyboardInterrupt, KeyInv
<1>2. scan \in Scan /\ UserFlags' = UserFlags /\ queue' \in Seq(Scan)
  BY <1>1 DEF KeyTypes, UserFlags
<1> HIDE DEF scan
<1>3. /\ KernelFlags' = After(scan, KernelFlags)
      /\ keybuffer' = IF CharOf(scan, KernelFlags) = Nul THEN keybuffer
                      ELSE CharOf(scan, KernelFlags)
      /\ meant' = IF scan.means = Nul THEN meant ELSE scan.means
  BY <1>1, <1>2, ScanHandled
<1>4. scan.means = CharOf(scan, KernelFlags) /\ Agreed'
  BY <1>1, <1>2, <1>3, QueueHead DEF scan
<1>5. KeyTypes'
  <2>1. KernelFlags' \in Flags
    BY <1>1, <1>2, <1>3, FlagsTyped, AfterTyped
  <2> QED
    BY <1>1, <1>2, <2>1 DEF KeyTypes, KernelFlags, Flags
<1>6. KeysAsMeant'
  BY <1>1, <1>3, <1>4 DEF KeysAsMeant, AfterInterrupt
<1> QED
  BY <1>4, <1>5, <1>6 DEF KeyInv

\* Pressing and releasing keys.
LEMMA UserKeys ==
  ASSUME KeyInv, NEW key \in Keys, Press(key) \/ Release(key)
  PROVE  KeyInv'
<1>1. /\ KeyTypes /\ Agreed /\ KeysAsMeant
      /\ UNCHANGED <<keyboard, thread>>
  BY DEF KeyInv, Press, Release, Sends
<1>2. KernelFlags' = KernelFlags /\ KeysAsMeant'
  BY <1>1 DEF keyboard, thread, KernelFlags, KeysAsMeant
<1>3. PICK sent \in Scan : /\ queue' = Append(queue, sent)
                           /\ sent.means = CharOf(sent, UserFlags)
                           /\ UserFlags' = After(sent, UserFlags)
  <2>1. CASE Press(key)
    <3>1. /\ queue' = Append(queue, [key |-> key, release |-> FALSE, means |-> Means(key)])
          /\ held' = held \cup ({key} \cap Shifts) /\ light' = (light # (key = "caps"))
      BY <2>1 DEF Press, Sends
    <3> QED
      BY <1>1, <3>1, KeyPressed
  <2>2. CASE Release(key)
    <3>1. /\ queue' = Append(queue, [key |-> key, release |-> TRUE, means |-> Nul])
          /\ held' = held \ {key} /\ light' = light /\ key \in held \cup {"ctrl"}
      BY <2>2 DEF Release, Sends
    <3> QED
      BY <1>1, <3>1, KeyReleased
  <2> QED
    BY <2>1, <2>2
<1>4. Agreed'
  BY <1>1, <1>2, <1>3, QueueAppend
<1>5. KeyTypes'
  <2>1. queue' \in Seq(Scan)
    BY <1>1, <1>3 DEF KeyTypes
  <2>2. held' \subseteq Shifts /\ light' \in BOOLEAN
    BY <1>1 DEF KeyTypes, Press, Release
  <2> QED
    BY <1>1, <2>1, <2>2 DEF KeyTypes, keyboard
<1> QED
  BY <1>2, <1>4, <1>5 DEF KeyInv

LEMMA KeysAlways == Spec => []KeyInv
<1>1. Init => KeyInv
  BY InitKeys
<1>2. KeyInv /\ [Next]_vars => KeyInv'
  BY KernelKeys, InterruptKeys, UserKeys DEF Next
<1> QED
  BY <1>1, <1>2, PTL DEF Spec

\* For a queue of any length and any timing of keys, interrupts and the reader:
\* what the reader finds in keybuffer is the latest character typed and not yet
\* taken, with the shift keys and the caps lock as they were when its key was
\* pressed (keyboard_handle_scan, get_char, clear_keybuffer).
THEOREM KeysArriveAsMeant == Spec => []KeysAsMeant
<1>1. KeyInv => KeysAsMeant
  BY DEF KeyInv
<1> QED
  BY <1>1, KeysAlways, PTL

-----------------------------------------------------------------------------
(* The screen: rows and cells *)

Terminal == [x : 0..(Width - 1), y : 0..(Height - 1), screen : [Cell -> Glyph], blink : Cell]
\* A screen with nothing behind the cursor.
Screens == {t \in Terminal : \A i \in Cell : i >= At(t) => t.screen[i] = Blank}

\* The first cell of row y, and how many cells there are.
Row(y) == y * Width
Cells == Width * Height

LEMMA Rows ==
  /\ Width \in Nat \ {0} /\ Height \in Nat /\ Height >= 2
  /\ Cells \in Nat /\ Cells = Row(Height) /\ Row(0) = 0 /\ Row(1) = Width
  /\ \A y \in Nat : Row(y) \in Nat /\ Row(y + 1) = Row(y) + Width
  /\ \A y, z \in Nat : y <= z => Row(y) <= Row(z)
<1>1. Width \in Nat \ {0} /\ Height \in Nat /\ Height >= 2
  BY ScreenAssumption
<1>2. \A a, b \in Nat : a * b \in Nat /\ a * b = b * a
  OBVIOUS
<1>3. ASSUME NEW y \in Nat PROVE Row(y) \in Nat /\ Row(y + 1) = Row(y) + Width
  BY <1>1, <1>2 DEF Row
<1>4. ASSUME NEW y \in Nat, NEW z \in Nat, y <= z PROVE Row(y) <= Row(z)
  <2>1. PICK k \in Nat : z = y + k
    <3>1. z - y \in Nat /\ z = y + (z - y)
      BY <1>4
    <3> QED
      BY <3>1
  <2>2. z * Width = y * Width + k * Width
    BY <1>1, <2>1
  <2>3. y * Width \in Nat /\ k * Width \in Nat
    BY <1>1, <1>2
  <2> QED
    BY <2>2, <2>3 DEF Row
<1>5. Cells \in Nat /\ Cells = Row(Height)
  BY <1>1, <1>2 DEF Cells, Row
<1>6. Row(0) = 0 /\ Row(1) = Width
  BY <1>1 DEF Row
<1> QED
  BY <1>1, <1>3, <1>4, <1>5, <1>6

LEMMA CellsAre == Cell = 0..(Cells - 1) /\ \A t : At(t) = Row(t.y) + t.x
BY DEF Cell, Cells, At, Row

\* A position on the screen is a cell.
LEMMA Position ==
  ASSUME NEW x \in 0..(Width - 1), NEW y \in 0..(Height - 1)
  PROVE  /\ x \in Nat /\ y \in Nat /\ Row(y) \in Nat /\ Row(y) + x \in Cell
         /\ Row(y) + x \in Nat /\ Row(y) + x < Cells
<1>1. /\ Width \in Nat \ {0} /\ Height \in Nat /\ x \in Nat /\ y \in Nat
      /\ y + 1 <= Height /\ y + 1 \in Nat /\ x < Width
  BY Rows
<1>2. Row(y) \in Nat /\ Row(y) + Width <= Cells /\ Cells \in Nat
  <2>1. Row(y) \in Nat /\ Row(y + 1) = Row(y) + Width
    BY <1>1, Rows
  <2>2. Row(y + 1) <= Row(Height) /\ Cells = Row(Height) /\ Cells \in Nat
    BY <1>1, Rows
  <2> QED
    BY <2>1, <2>2
<1>3. Row(y) + x \in Nat /\ Row(y) + x < Cells
  BY <1>1, <1>2
<1> QED
  BY <1>1, <1>2, <1>3, CellsAre

\* The cells in front of the cursor show what cells had from number s on.
ShowsFrom(u, cells, s) == \A i \in 0..(At(u) - 1) : u.screen[i] = cells[i + s]

LEMMA BlankGlyph == Blank \in Glyph
BY DEF Glyph

\* A terminal on which a character has been put, before its coordinates are
\* brought back onto the screen.
LEMMA Validated ==
  ASSUME NEW x \in 0..Width, NEW y \in 0..Height, NEW scr \in [Cell -> Glyph], NEW bl \in Cell,
         NEW w, w = [x |-> x, y |-> y, screen |-> scr, blink |-> bl],
         x = Width => y <= Height - 1, y = Height => x = 0,
         \A i \in Cell : i >= Row(y) + x => scr[i] = Blank
  PROVE  LET u == vga_move_cursor(validate_coords(w))
             a == Row(y) + x
             s == IF a >= Cells THEN Width ELSE 0 IN
         /\ u \in Screens /\ u.blink = At(u) /\ a \in Nat /\ At(u) = a - s
         /\ ShowsFrom(u, scr, s)
<1> DEFINE a == Row(y) + x
           s == IF a >= Cells THEN Width ELSE 0
<1>1. /\ Width \in Nat \ {0} /\ Height \in Nat /\ Height >= 2 /\ Cells \in Nat /\ Cells = Row(Height)
      /\ x \in Nat /\ y \in Nat /\ Row(y) \in Nat /\ Row(y + 1) = Row(y) + Width /\ a \in Nat
  <2>1. x \in Nat /\ y \in Nat /\ Width \in Nat \ {0} /\ Height \in Nat
    BY Rows
  <2>2. Row(y) \in Nat /\ Row(y + 1) = Row(y) + Width
    BY <2>1, Rows
  <2>3. Row(y) + x \in Nat
    BY <2>1, <2>2
  <2> HIDE DEF a
  <2> QED
    BY <2>1, <2>2, <2>3, Rows DEF a
\* The step to the next row.
<1>2. PICK vx \in 0..(Width - 1), vy \in 0..Height :
        /\ Row(vy) + vx = a /\ (vy = Height => vx = 0)
        /\ (IF w.x >= Width THEN [w EXCEPT !.x = 0, !.y = @ + 1] ELSE w)
             = [x |-> vx, y |-> vy, screen |-> scr, blink |-> bl]
  <2>1. CASE x >= Width
    <3>1. x = Width /\ y + 1 \in 0..Height /\ 0 \in 0..(Width - 1) /\ Row(y + 1) + 0 = a
      BY <1>1, <2>1
    <3>2. (IF w.x >= Width THEN [w EXCEPT !.x = 0, !.y = @ + 1] ELSE w)
             = [x |-> 0, y |-> y + 1, screen |-> scr, blink |-> bl]
      BY <2>1
    <3> QED
      BY <3>1, <3>2
  <2>2. CASE ~(x >= Width)
    <3>1. x \in 0..(Width - 1)
      BY <1>1, <2>2
    <3>2. (IF w.x >= Width THEN [w EXCEPT !.x = 0, !.y = @ + 1] ELSE w) = w
      BY <2>2
    <3> QED
      BY <1>1, <3>1, <3>2
  <2> QED
    BY <2>1, <2>2
<1> DEFINE v == [x |-> vx, y |-> vy, screen |-> scr, blink |-> bl]
<1>3. vx \in Nat /\ vx < Width /\ vy \in Nat /\ Row(vy) \in Nat /\ (vy >= Height <=> a >= Cells)
  <2>0. vx \in Nat /\ vx < Width
    BY <1>1
  <2>1. vy \in Nat /\ Row(vy) \in Nat
    <3>1. vy \in Nat
      BY <1>1
    <3> QED
      BY <3>1, Rows
  <2>2. CASE vy >= Height
    <3>1. vy = Height
      BY <1>1, <2>1, <2>2
    <3> QED
      BY <1>1, <1>2, <2>0, <2>1, <3>1
  <2>3. CASE ~(vy >= Height)
    <3>1. vy \in 0..(Height - 1)
      BY <1>1, <2>1, <2>3
    <3>2. Row(vy) + vx < Cells
      BY <3>1, Position
    <3> QED
      BY <1>1, <1>2, <2>0, <2>1, <2>3, <3>2
  <2> QED
    BY <2>0, <2>1, <2>2, <2>3
<1> HIDE DEF a
\* The screen scrolled by a row.
<1> DEFINE Fits(b, zs) == \A i \in 0..(b - 1) : zs[i] = scr[i + s]
           Clear(b, zs) == \A i \in Cell : i >= b => zs[i] = Blank
<1>4. PICK zy \in 0..(Height - 1), zs \in [Cell -> Glyph] :
        /\ Scrolled(v) = [x |-> vx, y |-> zy, screen |-> zs, blink |-> bl]
        /\ Row(zy) + vx = a - s
        /\ Clear(Row(zy) + vx, zs)
        /\ Fits(Row(zy) + vx, zs)
  <2>1. CASE a >= Cells
    <3> DEFINE up == [i \in Cell |-> IF i + Width \in Cell THEN scr[i + Width] ELSE Blank]
               zy == Height - 1
    <3>1. vy = Height /\ s = Width /\ Row(Height) + vx = a
      <4>1. vy = Height
        BY <1>1, <1>3, <2>1
      <4> QED
        BY <1>2, <2>1, <4>1
    <3>2. up \in [Cell -> Glyph]
      BY BlankGlyph
    <3>3. Scrolled(v) = [x |-> vx, y |-> zy, screen |-> up, blink |-> bl]
      <4>1. v.y >= Height /\ v.screen = scr
        BY <1>1, <3>1
      <4>2. Scrolled(v) = [scroll_screen(v) EXCEPT !.y = @ - 1]
        BY <4>1 DEF Scrolled
      <4>3. scroll_screen(v) = [x |-> vx, y |-> vy, screen |-> up, blink |-> bl]
        BY DEF scroll_screen
      <4> HIDE DEF up, v
      <4> QED
        BY <3>1, <4>2, <4>3
    <3>4. zy \in 0..(Height - 1) /\ zy \in Nat /\ Row(Height) = Row(zy) + Width /\ Row(zy) \in Nat
      <4>1. zy \in Nat /\ zy + 1 = Height /\ zy \in 0..(Height - 1)
        BY <1>1
      <4> HIDE DEF zy
      <4> QED
        BY <4>1, Rows
    <3> HIDE DEF zy, s
    <3>5. Row(zy) + vx = a - s /\ Row(zy) + vx \in Nat /\ a \in Nat /\ Row(zy) + vx + Width = a
      BY <1>1, <1>3, <3>1, <3>4
    <3> DEFINE b == Row(zy) + vx
    <3>8. b \in Nat /\ a \in Nat /\ b + Width = a /\ b + Width = Cells /\ b < Cells
      BY <3>5, <1>1, <1>2, <1>3, <3>1, <3>4
    <3> HIDE DEF b
    <3>6. ASSUME NEW i \in Cell, i >= b PROVE up[i] = Blank
      <4>1. CASE i + Width \in Cell
        <5>1. i \in Nat /\ i + Width >= a
          BY <1>1, <3>6, <3>8, CellsAre
        <5> QED
          BY <4>1, <5>1 DEF a
      <4>2. CASE i + Width \notin Cell
        BY <4>2
      <4> QED
        BY <4>1, <4>2
    <3>7. ASSUME NEW i \in 0..(b - 1) PROVE up[i] = scr[i + s]
      <4>1. i \in Nat /\ i + Width < Cells /\ i < Cells
        BY <1>1, <3>8
      <4>2. i \in Cell /\ i + Width \in Cell
        BY <1>1, <4>1, CellsAre
      <4> QED
        BY <3>1, <4>2
    <3>9. Clear(Row(zy) + vx, up)
      BY <3>6 DEF b
    <3>10. Fits(Row(zy) + vx, up)
      BY <3>7 DEF b
    <3> HIDE DEF up, Fits, Clear
    <3> QED
      BY <3>2, <3>3, <3>4, <3>5, <3>9, <3>10
  <2>2. CASE ~(a >= Cells)
    <3>1. Scrolled(v) = v /\ s = 0
      BY <1>3, <2>2 DEF Scrolled
    <3>2. vy \in 0..(Height - 1)
      BY <1>1, <1>3, <2>2
    <3> HIDE DEF s
    <3>3. \A i \in 0..(a - 1) : i + s = i
      BY <3>1
    <3>4. Clear(Row(vy) + vx, scr)
      BY <1>2 DEF a
    <3>5. Fits(Row(vy) + vx, scr)
      BY <1>2, <3>3
    <3> HIDE DEF Fits, Clear
    <3> QED
      BY <1>1, <1>2, <3>1, <3>2, <3>4, <3>5
  <2> QED
    BY <2>1, <2>2
<1> DEFINE b == Row(zy) + vx
           u == [x |-> vx, y |-> zy, screen |-> zs, blink |-> b]
<1>5. b \in Cell
  BY <1>4, Position
<1>6. vga_move_cursor(validate_coords(w)) = u
  BY <1>2, <1>4, CellsAre DEF vga_move_cursor, validate_coords
<1>7. u.blink = b /\ At(u) = b /\ u.screen = zs
  BY CellsAre
<1>8. b = a - s /\ Clear(b, zs) /\ Fits(b, zs) /\ b \in Nat
  <2> HIDE DEF Fits, Clear, s
  <2> QED
    BY <1>4, <1>5, <1>1, CellsAre
<1>9. u \in Terminal
  BY <1>5 DEF Terminal
<1> HIDE DEF b, u
<1>10. u \in Screens
  BY <1>7, <1>8, <1>9 DEF Screens
<1>11. ShowsFrom(u, scr, s)
  <2> HIDE DEF s
  <2> QED
    BY <1>7, <1>8 DEF ShowsFrom
<1> QED
  BY <1>1, <1>6, <1>7, <1>8, <1>10, <1>11 DEF a

\* What holds of the cursor and the cells of a terminal.
LEMMA ScreenIs ==
  ASSUME NEW t \in Screens
  PROVE  /\ t.x \in 0..(Width - 1) /\ t.y \in 0..(Height - 1)
         /\ t.screen \in [Cell -> Glyph] /\ t.blink \in Cell
         /\ t = [x |-> t.x, y |-> t.y, screen |-> t.screen, blink |-> t.blink]
         /\ At(t) = Row(t.y) + t.x /\ At(t) \in Cell /\ At(t) \in Nat /\ At(t) < Cells
         /\ \A i \in Cell : i >= At(t) => t.screen[i] = Blank
<1>1. t \in Terminal /\ \A i \in Cell : i >= At(t) => t.screen[i] = Blank
  BY DEF Screens
<1>2. /\ t.x \in 0..(Width - 1) /\ t.y \in 0..(Height - 1)
      /\ t.screen \in [Cell -> Glyph] /\ t.blink \in Cell
      /\ t = [x |-> t.x, y |-> t.y, screen |-> t.screen, blink |-> t.blink]
  BY <1>1 DEF Terminal
<1>3. At(t) = Row(t.y) + t.x
  BY CellsAre
<1> QED
  BY <1>1, <1>2, <1>3, Position

\* A character goes to the cell of the cursor; what was shown stays in front of
\* it, a row of it scrolled away when the cursor left the last cell (putc).
LEMMA PutGlyph ==
  ASSUME NEW t \in Screens, NEW char \in Glyph
  PROVE  LET u == putc(t, char)
             s == IF At(t) + 1 >= Cells THEN Width ELSE 0 IN
         /\ u \in Screens /\ u.blink = At(u) /\ At(u) = At(t) + 1 - s
         /\ \A i \in 0..(At(u) - 1) : u.screen[i] = IF i + s = At(t) THEN char ELSE t.screen[i + s]
<1>1. PICK x \in 0..(Width - 1), y \in 0..(Height - 1), scr \in [Cell -> Glyph], bl \in Cell :
        /\ t = [x |-> x, y |-> y, screen |-> scr, blink |-> bl]
        /\ At(t) = Row(y) + x /\ Row(y) + x \in Cell
        /\ \A i \in Cell : i >= Row(y) + x => scr[i] = Blank
  <2>1. t.screen \in [Cell -> Glyph] /\ \A i \in Cell : i >= Row(t.y) + t.x => t.screen[i] = Blank
    BY ScreenIs
  <2> QED
    BY <2>1, ScreenIs
<1>2. /\ x \in Nat /\ y \in Nat /\ Width \in Nat \ {0} /\ Height \in Nat /\ Row(y) \in Nat
      /\ x + 1 \in 0..Width /\ y \in 0..Height /\ y <= Height - 1 /\ y # Height
  <2>1. x \in Nat /\ y \in Nat /\ Width \in Nat \ {0} /\ Height \in Nat /\ Row(y) \in Nat
    BY Position, Rows
  <2> QED
    BY <2>1
<1> DEFINE a == Row(y) + x
           put == [scr EXCEPT ![a] = char]
           w == [x |-> x + 1, y |-> y, screen |-> put, blink |-> bl]
<1>3. put \in [Cell -> Glyph] /\ \A i \in Cell : put[i] = IF i = a THEN char ELSE scr[i]
  BY <1>1
<1>4. putc(t, char) = vga_move_cursor(validate_coords(w))
  <2>1. char # Enter
    BY DEF Glyph, Enter, Blank
  <2>2. vga_write_xy(t, char) = [x |-> x, y |-> y, screen |-> put, blink |-> bl]
    BY <1>1 DEF vga_write_xy
  <2>3. [vga_write_xy(t, char) EXCEPT !.x = @ + 1] = w
    <3> HIDE DEF put
    <3> QED
      BY <2>2
  <2> QED
    BY <2>1, <2>3 DEF putc
<1>5. Row(y) + (x + 1) = a + 1 /\ a \in Nat
  BY <1>2
<1>6. \A i \in Cell : i >= Row(y) + (x + 1) => put[i] = Blank
  <2> HIDE DEF put
  <2> TAKE i \in Cell
  <2> HAVE i >= Row(y) + (x + 1)
  <2>1. i \in Nat
    BY CellsAre, Rows
  <2>2. i >= a /\ i # a
    BY <1>5, <2>1
  <2> QED
    BY <1>1, <1>3, <2>2
<1> HIDE DEF w, put
<1> DEFINE u == putc(t, char)
           s == IF a + 1 >= Cells THEN Width ELSE 0
<1>7. /\ u \in Screens /\ u.blink = At(u) /\ At(u) = a + 1 - s
      /\ ShowsFrom(u, put, s)
  <2>1. x + 1 = Width => y <= Height - 1
    BY <1>2
  <2>2. w = [x |-> x + 1, y |-> y, screen |-> put, blink |-> bl]
    BY DEF w
  <2> DEFINE b == Row(y) + (x + 1)
             r == IF b >= Cells THEN Width ELSE 0
  <2>3. /\ u \in Screens /\ u.blink = At(u) /\ b \in Nat /\ At(u) = b - r
        /\ ShowsFrom(u, put, r)
    <3> HIDE DEF a, s
    <3> QED
      BY <1>2, <1>3, <1>4, <1>6, <2>1, <2>2, Validated
  <2>4. b = a + 1 /\ r = s /\ a \in Nat /\ b \in Nat /\ s \in Nat
    <3>1. b = a + 1 /\ a \in Nat
      BY <1>5
    <3> HIDE DEF b, a
    <3> QED
      BY <3>1, <1>2
  <2> HIDE DEF a, u, b, r, s
  <2> QED
    BY <2>3, <2>4
<1> HIDE DEF u
<1>8. ASSUME NEW i \in 0..(At(u) - 1)
      PROVE  u.screen[i] = IF i + s = a THEN char ELSE scr[i + s]
  <2>1. At(u) \in Nat /\ At(u) < Cells /\ Cells \in Nat
    BY <1>7, ScreenIs, Rows
  <2>2. i \in Nat /\ i + s \in Nat /\ i + s < Cells
    <3> HIDE DEF a
    <3>1. i \in Nat /\ i < At(u)
      BY <2>1
    <3>2. CASE a + 1 >= Cells
      <4>1. a < Cells
        BY Position DEF a
      <4> QED
        BY <1>2, <1>5, <1>7, <2>1, <3>1, <3>2, <4>1
    <3>3. CASE ~(a + 1 >= Cells)
      BY <1>7, <2>1, <3>1, <3>3
    <3> QED
      BY <3>2, <3>3
  <2>3. i + s \in Cell
    BY <2>1, <2>2, CellsAre
  <2> HIDE DEF s, a
  <2> QED
    BY <1>3, <1>7, <2>3 DEF ShowsFrom
<1>9. At(t) = a /\ t.screen = scr
  BY <1>1
<1> HIDE DEF a
<1> QED
  BY <1>7, <1>8, <1>9 DEF s, u

\* The end of a line leaves nothing behind the cursor either (putc).
LEMMA PutEnter ==
  ASSUME NEW t \in Screens
  PROVE  putc(t, Enter) \in Screens
<1>1. PICK x \in 0..(Width - 1), y \in 0..(Height - 1), scr \in [Cell -> Glyph], bl \in Cell :
        /\ t = [x |-> x, y |-> y, screen |-> scr, blink |-> bl]
        /\ Row(y) + x \in Cell
        /\ \A i \in Cell : i >= Row(y) + x => scr[i] = Blank
  <2>1. t.screen \in [Cell -> Glyph] /\ \A i \in Cell : i >= Row(t.y) + t.x => t.screen[i] = Blank
    BY ScreenIs
  <2> QED
    BY <2>1, ScreenIs
<1>2. /\ x \in Nat /\ x < Width /\ y \in Nat /\ Width \in Nat \ {0} /\ Height \in Nat
      /\ Row(y) \in Nat /\ Row(y + 1) = Row(y) + Width /\ y + 1 \in 0..Height /\ 0 \in 0..Width
  <2>1. x \in Nat /\ y \in Nat /\ Width \in Nat \ {0} /\ Height \in Nat /\ Row(y) \in Nat
    BY Position, Rows
  <2> QED
    BY <2>1, Rows
<1>3. putc(t, Enter) = vga_move_cursor(validate_coords([x |-> 0, y |-> y + 1, screen |-> scr, blink |-> bl]))
  <2>1. [t EXCEPT !.x = 0, !.y = @ + 1] = [x |-> 0, y |-> y + 1, screen |-> scr, blink |-> bl]
    <3>1. t = [x |-> x, y |-> y, screen |-> scr, blink |-> bl] /\ t.y = y
      BY <1>1
    <3>2. t \in [x : {x}, y : {y}, screen : {scr}, blink : {bl}]
      BY <3>1
    <3> DEFINE u == [t EXCEPT !.x = 0, !.y = y + 1]
    <3>3. /\ u \in [x : {0}, y : {y + 1}, screen : {scr}, blink : {bl}]
          /\ u.x = 0 /\ u.y = y + 1 /\ u.screen = scr /\ u.blink = bl
      BY <3>1, <3>2
    <3> HIDE DEF u
    <3>4. u = [x |-> 0, y |-> y + 1, screen |-> scr, blink |-> bl]
      BY <3>3
    <3> QED
      BY <3>1, <3>4 DEF u
  <2> QED
    BY <2>1 DEF putc
<1>4. ASSUME NEW i \in Cell, i >= Row(y + 1) + 0 PROVE scr[i] = Blank
  <2>1. i \in Nat
    BY CellsAre, Rows
  <2>2. i >= Row(y) + x
    BY <1>2, <1>4, <2>1
  <2> QED
    BY <1>1, <2>2
<1>5. 0 = Width => y + 1 <= Height - 1
  BY <1>2
<1> DEFINE w == [x |-> 0, y |-> y + 1, screen |-> scr, blink |-> bl]
<1>6. w = [x |-> 0, y |-> y + 1, screen |-> scr, blink |-> bl]
  OBVIOUS
<1> HIDE DEF w
<1>7. LET v == vga_move_cursor(validate_coords(w)) IN v \in Screens
  BY <1>2, <1>4, <1>5, <1>6, Validated
<1> QED
  BY <1>3, <1>6, <1>7

\* A cleared screen is blank (clear_screen).
LEMMA ClearedIs ==
  ASSUME NEW t \in Terminal
  PROVE  clear_screen(t) \in Screens
<1>1. PICK x \in 0..(Width - 1), y \in 0..(Height - 1), scr \in [Cell -> Glyph], bl \in Cell :
        t = [x |-> x, y |-> y, screen |-> scr, blink |-> bl]
  <2>1. /\ t.x \in 0..(Width - 1) /\ t.y \in 0..(Height - 1) /\ t.screen \in [Cell -> Glyph]
        /\ t.blink \in Cell /\ t = [x |-> t.x, y |-> t.y, screen |-> t.screen, blink |-> t.blink]
    BY DEF Terminal
  <2> QED
    BY <2>1
<1> DEFINE none == [i \in Cell |-> Blank]
<1>2. none \in [Cell -> Glyph] /\ \A i \in Cell : none[i] = Blank
  BY BlankGlyph
<1>3. clear_screen(t) = [t EXCEPT !.x = 0, !.y = 0, !.screen = none]
  BY DEF clear_screen
<1> HIDE DEF none
<1> DEFINE u == [t EXCEPT !.x = 0, !.y = 0, !.screen = none]
<1>4. u \in [x : {0}, y : {0}, screen : {none}, blink : {bl}] /\ u.screen = none
  <2>1. t \in [x : {x}, y : {y}, screen : {scr}, blink : {bl}]
    BY <1>1
  <2> QED
    BY <2>1
<1> HIDE DEF u
<1>5. 0 \in 0..(Width - 1) /\ 0 \in 0..(Height - 1)
  BY Rows
<1>6. u \in Terminal
  BY <1>2, <1>4, <1>5 DEF Terminal
<1> QED
  BY <1>2, <1>3, <1>4, <1>6 DEF Screens, u

\* The character left of the cursor goes, the others stay (backspace).
LEMMA Erased ==
  ASSUME NEW t \in Screens, At(t) > 0
  PROVE  LET u == backspace(t) IN
         u \in Screens /\ u.blink = At(u) /\ At(u) = At(t) - 1 /\ ShowsFrom(u, t.screen, 0)
<1>1. PICK x \in 0..(Width - 1), y \in 0..(Height - 1), scr \in [Cell -> Glyph], bl \in Cell :
        /\ t = [x |-> x, y |-> y, screen |-> scr, blink |-> bl]
        /\ At(t) = Row(y) + x
        /\ \A i \in Cell : i >= Row(y) + x => scr[i] = Blank
  <2>1. t.screen \in [Cell -> Glyph] /\ \A i \in Cell : i >= Row(t.y) + t.x => t.screen[i] = Blank
    BY ScreenIs
  <2> QED
    BY <2>1, ScreenIs
<1> DEFINE back == IF t.x = 0 THEN [t EXCEPT !.x = Width - 1, !.y = @ - 1] ELSE [t EXCEPT !.x = @ - 1]
<1>2. /\ x \in Nat /\ x < Width /\ y \in Nat /\ Width \in Nat \ {0} /\ Height \in Nat /\ Row(y) \in Nat
      /\ Row(0) = 0 /\ Cells \in Nat
  <2>1. x \in Nat /\ y \in Nat /\ Width \in Nat \ {0} /\ Height \in Nat /\ Row(y) \in Nat
    BY Position, Rows
  <2>2. x < Width
    BY <2>1
  <2> QED
    BY <2>1, <2>2, Rows
\* The cell left of the cursor.
<1>3. PICK bx \in 0..(Width - 1), by \in 0..(Height - 1) :
        back = [x |-> bx, y |-> by, screen |-> scr, blink |-> bl] /\ Row(by) + bx = Row(y) + x - 1
  <2>0. t \in [x : {x}, y : {y}, screen : {scr}, blink : {bl}] /\ t.x = x /\ t.y = y
    BY <1>1
  <2>1. CASE x = 0
    <3>1. PICK n \in Nat : n = y - 1 /\ n + 1 = y /\ n \in 0..(Height - 1)
      <4>1. y # 0
        BY <1>1, <1>2, <2>1
      <4>2. y - 1 \in Nat /\ (y - 1) + 1 = y /\ y - 1 \in 0..(Height - 1)
        BY <1>2, <4>1
      <4> QED
        BY <4>2
    <3>2. Row(y) = Row(n) + Width /\ Row(n) \in Nat
      BY <3>1, Rows
    <3>3. back \in [x : {Width - 1}, y : {n}, screen : {scr}, blink : {bl}]
      BY <2>0, <2>1, <3>1
    <3>4. Row(n) + (Width - 1) = Row(y) + x - 1 /\ Width - 1 \in 0..(Width - 1)
      BY <1>2, <2>1, <3>2
    <3>5. back = [x |-> Width - 1, y |-> n, screen |-> scr, blink |-> bl]
      <4> HIDE DEF back
      <4> QED
        BY <3>3
    <3> HIDE DEF back
    <3> QED
      BY <3>1, <3>4, <3>5
  <2>2. CASE x # 0
    <3>1. PICK n \in 0..(Width - 1) : n = x - 1
      <4>1. x - 1 \in 0..(Width - 1)
        BY <1>2, <2>2
      <4> QED
        BY <4>1
    <3>2. back \in [x : {n}, y : {y}, screen : {scr}, blink : {bl}]
      BY <2>0, <2>2, <3>1
    <3>3. Row(y) + n = Row(y) + x - 1
      BY <1>2, <3>1
    <3>4. back = [x |-> n, y |-> y, screen |-> scr, blink |-> bl]
      <4> HIDE DEF back
      <4> QED
        BY <3>2
    <3> HIDE DEF back
    <3> QED
      BY <3>1, <3>3, <3>4
  <2> QED
    BY <2>1, <2>2
<1> DEFINE a == Row(by) + bx
           put == [scr EXCEPT ![a] = Blank]
           u == [x |-> bx, y |-> by, screen |-> put, blink |-> a]
<1>4. a \in Cell /\ a \in Nat /\ a < Cells
  BY Position
<1>5. backspace(t) = u
  <2>1. ~(t.x = 0 /\ t.y = 0)
    <3>1. ~(x = 0 /\ y = 0)
      BY <1>1, <1>2
    <3> QED
      BY <1>1, <3>1
  <2>2. vga_write_xy(back, Blank) = [x |-> bx, y |-> by, screen |-> put, blink |-> bl]
    <3>1. At(back) = a /\ back.x = bx /\ back.y = by /\ back.screen = scr
      BY <1>3, CellsAre
    <3>2. vga_write_xy(back, Blank) = [back EXCEPT !.screen[a] = Blank]
      BY <3>1 DEF vga_write_xy
    <3> HIDE DEF back, a
    <3> QED
      BY <1>3, <3>1, <3>2
  <2>3. backspace(t) = vga_move_cursor(vga_write_xy(back, Blank))
    BY <2>1 DEF backspace
  <2> HIDE DEF put, back
  <2> QED
    BY <2>2, <2>3, CellsAre DEF vga_move_cursor
<1>6. put \in [Cell -> Glyph] /\ \A i \in Cell : put[i] = IF i = a THEN Blank ELSE scr[i]
  BY BlankGlyph
<1> HIDE DEF put
<1>7. At(u) = a /\ u.screen = put /\ u.blink = a
  BY CellsAre
<1>8. u \in Terminal
  <2> HIDE DEF a
  <2> QED
    BY <1>4, <1>6 DEF Terminal
<1> HIDE DEF u
<1>9. Row(y) + x = a + 1
  BY <1>2, <1>3, <1>4
<1> HIDE DEF a
<1>10. ASSUME NEW i \in Cell, i >= a PROVE put[i] = Blank
  <2>1. i \in Nat
    BY CellsAre, Rows
  <2>2. i = a \/ i >= Row(y) + x
    BY <1>4, <1>9, <1>10, <2>1
  <2> QED
    BY <1>1, <1>6, <2>2
<1>11. ASSUME NEW i \in 0..(a - 1) PROVE put[i] = scr[i + 0]
  <2>1. i \in Nat /\ i < a /\ i < Cells
    BY <1>2, <1>4
  <2>2. i \in Cell /\ i # a /\ i + 0 = i
    BY <1>2, <1>4, <2>1, CellsAre
  <2> QED
    BY <1>6, <2>2
<1>12. u \in Screens
  BY <1>7, <1>8, <1>10 DEF Screens
<1>13. ShowsFrom(u, scr, 0)
  BY <1>7, <1>11 DEF ShowsFrom
<1>14. At(u) = At(t) - 1 /\ t.screen = scr
  <2>1. a = (a + 1) - 1
    BY <1>4
  <2> QED
    BY <1>1, <1>7, <1>9, <2>1
<1> QED
  BY <1>5, <1>7, <1>12, <1>13, <1>14

\* Every set of naturals has a least element.
LEMMA Least ==
  ASSUME NEW T \in SUBSET Nat, T # {}
  PROVE  \E x \in T : \A y \in T : ~(y < x)
<1> DEFINE R == OpToRel(<, Nat)
<1>1. IsWellFoundedOn(R, Nat)
  BY NatLessThanWellFounded
<1>2. \A x, y \in Nat : y < x => <<y, x>> \in R
  BY DEF OpToRel
<1> HIDE DEF R
<1>3. PICK x \in T : \A y \in T : ~(<<y, x>> \in R)
  BY <1>1, WFMin
<1> QED
  BY <1>2, <1>3

\* Whatever a command prints, the screen stays one with nothing behind the
\* cursor: the recursive function exists, and its least exception does not.
LEMMA PrintedIs ==
  ASSUME NEW t \in Screens, NEW text \in Outputs
  PROVE  Printed(t, text) \in Screens
<1> DEFINE n == Len(text)
           F(a) == [i \in 0..n |-> IF i = 0 THEN t ELSE putc(a[i - 1], text[i])]
           at == CHOOSE a : a = F(a)
           Ok(f, k) == /\ f \in [0..k -> Screens] /\ f[0] = t
                       /\ \A i \in 1..k : f[i] = putc(f[i - 1], text[i])
<1>0. text \in Seq(Glyph \cup {Enter}) /\ n \in Nat
  BY OutputAssumption
<1>1. ASSUME NEW s \in Screens, NEW i \in 1..n PROVE putc(s, text[i]) \in Screens
  <2>1. text[i] \in Glyph \cup {Enter}
    BY <1>0, ElementOfSeq
  <2> QED
    BY <2>1, PutGlyph, PutEnter
<1> HIDE DEF n
<1>2. \A k \in 0..n : \E f : Ok(f, k)
  <2> DEFINE T == {k \in 0..n : ~(\E f : Ok(f, k))}
  <2> SUFFICES ASSUME T # {} PROVE FALSE
    OBVIOUS
  <2>1. T \in SUBSET Nat
    BY <1>0
  <2>2. PICK k \in T : \A j \in T : ~(j < k)
    <3> HIDE DEF T
    <3> QED
      BY <2>1, Least
  <2>3. k \in 0..n /\ k \in Nat
    BY <1>0
  <2>4. k # 0
    <3>1. Ok([i \in 0..0 |-> t], 0)
      OBVIOUS
    <3> HIDE DEF Ok
    <3> QED
      BY <2>2, <3>1
  <2>5. k - 1 \in 0..n /\ k - 1 \in Nat /\ k - 1 < k /\ k \in 1..n
    BY <1>0, <2>3, <2>4
  <2>6. PICK f : Ok(f, k - 1)
    BY <2>2, <2>5
  <2> DEFINE g == [i \in 0..k |-> IF i = k THEN putc(f[k - 1], text[k]) ELSE f[i]]
  <2>7. f[k - 1] \in Screens
    BY <2>5, <2>6
  <2>8. putc(f[k - 1], text[k]) \in Screens
    BY <1>1, <2>5, <2>7
  <2>9. ASSUME NEW i \in 0..k, i # k PROVE i \in 0..(k - 1) /\ g[i] = f[i] /\ f[i] \in Screens
    BY <2>3, <2>5, <2>6, <2>9
  <2>10. g \in [0..k -> Screens] /\ g[0] = t
    BY <2>4, <2>5, <2>6, <2>8, <2>9
  <2>11. ASSUME NEW i \in 1..k PROVE g[i] = putc(g[i - 1], text[i])
    <3>1. i \in 0..k /\ i - 1 \in 0..k /\ i - 1 # k
      BY <2>3
    <3>2. g[i - 1] = f[i - 1]
      BY <2>9, <3>1
    <3>3. CASE i = k
      BY <3>1, <3>2, <3>3
    <3>4. CASE i # k
      <4>1. i \in 1..(k - 1) /\ g[i] = f[i]
        BY <2>3, <2>9, <3>1, <3>4
      <4> HIDE DEF g
      <4> QED
        BY <2>6, <3>2, <4>1
    <3> QED
      BY <3>3, <3>4
  <2>12. Ok(g, k)
    <3> HIDE DEF g
    <3> QED
      BY <2>10, <2>11
  <2> HIDE DEF Ok, g
  <2> QED
    BY <2>2, <2>12
<1>3. PICK g : Ok(g, n)
  <2>1. n \in 0..n
    BY <1>0
  <2> HIDE DEF Ok
  <2> QED
    BY <1>2, <2>1
<1>4. g = F(g)
  <2>1. ASSUME NEW i \in 0..n PROVE g[i] = F(g)[i]
    <3>1. i = 0 \/ i \in 1..n
      BY <1>0
    <3> QED
      BY <1>3, <3>1
  <2>2. g = [i \in 0..n |-> g[i]] /\ F(g) = [i \in 0..n |-> F(g)[i]]
    BY <1>3
  <2> QED
    BY <2>1, <2>2
<1>5. at = F(at)
  BY <1>4
<1>6. Printed(t, text) = at[n]
  BY DEF Printed, n
<1>7. \A i \in 0..n : at[i] = IF i = 0 THEN t ELSE putc(at[i - 1], text[i])
  <2> HIDE DEF at
  <2>1. \A i \in 0..n : at[i] = F(at)[i]
    BY <1>5
  <2> QED
    BY <2>1
<1> HIDE DEF at
<1> DEFINE T == {i \in 0..n : at[i] \notin Screens}
<1>8. T = {}
  <2> SUFFICES ASSUME T # {} PROVE FALSE
    OBVIOUS
  <2>1. T \in SUBSET Nat
    BY <1>0
  <2>2. PICK i \in T : \A j \in T : ~(j < i)
    <3> HIDE DEF T
    <3> QED
      BY <2>1, Least
  <2>3. i # 0
    BY <1>7, <2>2
  <2>4. i - 1 \in 0..n /\ i - 1 < i /\ i \in 1..n
    BY <1>0, <2>3
  <2>5. at[i - 1] \in Screens
    BY <2>2, <2>4
  <2>6. at[i] = putc(at[i - 1], text[i])
    BY <1>7, <2>3, <2>4
  <2>7. at[i] \in Screens
    BY <1>1, <2>4, <2>5, <2>6
  <2> QED
    BY <2>7
<1> QED
  <2>1. n \in 0..n
    BY <1>0
  <2> QED
    BY <1>6, <1>8, <2>1

-----------------------------------------------------------------------------
(* The line on the screen *)

\* Character k, counted from 0, of the text b followed by the line in d.
TextAt(b, d, k) == IF k < Len(b) THEN b[k + 1] ELSE d[k - Len(b)]

\* The screen shows the end of b and then the n characters of d that count.
Shows(u, b, d, n) ==
  /\ At(u) \in n..(Len(b) + n)
  /\ \A i \in 0..(At(u) - 1) : u.screen[i] = TextAt(b, d, Len(b) + n - At(u) + i)

Lines == [0..(Length - 1) -> Typed]

LEMMA LineFits == Length \in Nat /\ Length >= 1 /\ Length - 1 + Width + Width <= Cells
<1>1. /\ Length \in Nat /\ Length >= 1 /\ Height - 2 \in Nat /\ Length - 1 <= Width * (Height - 2)
      /\ (Height - 2) + 1 = Height - 1 /\ (Height - 1) + 1 = Height /\ Height - 1 \in Nat
  BY ScreenAssumption
<1>2. PICK h \in Nat : h = Height - 2
  BY <1>1
<1>3. Width * h = Row(h) /\ Row(h) \in Nat
  BY Rows DEF Row
<1>4. /\ Row(h + 1) = Row(h) + Width /\ Row(h + 1) \in Nat /\ h + 1 \in Nat
      /\ Row((h + 1) + 1) = Row(h + 1) + Width
  <2>1. h + 1 \in Nat
    OBVIOUS
  <2> QED
    BY <2>1, Rows
<1>5. (h + 1) + 1 = Height
  BY <1>1, <1>2
<1>6. Cells = Row(h) + Width + Width
  BY <1>3, <1>4, <1>5, Rows
<1> QED
  BY <1>1, <1>2, <1>3, <1>6, Rows

\* A character put at the end of the line appears behind it.
LEMMA ShowsMore ==
  ASSUME NEW t \in Screens, NEW char \in Glyph, NEW b \in Seq(Glyph), NEW d \in Lines,
         NEW n \in 0..(Length - 2), Shows(t, b, d, n)
  PROVE  Shows(putc(t, char), b, [d EXCEPT ![n] = char], n + 1)
<1> DEFINE u == putc(t, char)
           A == At(t)
           B == At(u)
           L == Len(b)
           s == IF A + 1 >= Cells THEN Width ELSE 0
           e == [d EXCEPT ![n] = char]
<1>1. /\ u \in Screens /\ B = A + 1 - s
      /\ \A i \in 0..(B - 1) : u.screen[i] = IF i + s = A THEN char ELSE t.screen[i + s]
  BY PutGlyph
<1>2. A \in Nat /\ B \in Nat /\ B < Cells /\ A < Cells
  BY <1>1, ScreenIs
<1>3. /\ L \in Nat /\ n \in Nat /\ n + 1 <= Length - 1 /\ Length \in Nat
      /\ Width \in Nat \ {0} /\ Cells \in Nat
      /\ Length - 1 + Width + Width <= Cells
  BY LineFits, Rows
<1>4. /\ A >= n /\ A <= L + n
      /\ \A i \in 0..(A - 1) : t.screen[i] = TextAt(b, d, L + n - A + i)
  BY <1>2, <1>3 DEF Shows
<1>5. /\ e[n] = char /\ \A i \in 0..(Length - 1) : i # n => e[i] = d[i]
  <2>1. n \in 0..(Length - 1)
    BY <1>3
  <2> QED
    BY <2>1 DEF Lines
<1> HIDE DEF u, A, B, L, e
<1>6. s \in Nat /\ B >= n + 1 /\ B <= L + (n + 1)
  <2>1. CASE A + 1 >= Cells
    BY <1>1, <1>2, <1>3, <1>4, <2>1
  <2>2. CASE ~(A + 1 >= Cells)
    BY <1>1, <1>2, <1>3, <1>4, <2>2
  <2> QED
    BY <2>1, <2>2
<1> HIDE DEF s
<1>7. ASSUME NEW i \in 0..(B - 1) PROVE u.screen[i] = TextAt(b, e, L + (n + 1) - B + i)
  <2>1. /\ i \in Nat /\ i + s \in Nat /\ i + s <= A
        /\ L + (n + 1) - B + i = L + n - A + (i + s)
    BY <1>1, <1>2, <1>3, <1>6
  <2>2. CASE i + s = A
    <3>1. L + (n + 1) - B + i = L + n /\ ~(L + n < L) /\ (L + n) - L = n
      BY <1>2, <1>3, <2>1, <2>2
    <3> QED
      BY <1>1, <1>5, <2>2, <3>1 DEF TextAt, L
  <2>3. CASE i + s # A
    <3>1. i + s \in 0..(A - 1)
      BY <1>2, <2>1, <2>3
    <3>2. PICK k \in Nat : k = L + n - A + (i + s) /\ k < L + n
      <4>1. L + n - A + (i + s) \in Nat /\ L + n - A + (i + s) < L + n
        BY <1>2, <1>3, <1>4, <2>1, <2>3
      <4> QED
        BY <4>1
    <3>3. u.screen[i] = TextAt(b, d, k)
      BY <1>1, <1>4, <2>3, <3>1, <3>2
    <3>4. TextAt(b, e, k) = TextAt(b, d, k)
      <4>1. CASE k < L
        BY <4>1 DEF TextAt, L
      <4>2. CASE ~(k < L)
        <5>1. k - L \in 0..(Length - 1) /\ k - L # n
          BY <1>3, <3>2, <4>2
        <5> QED
          BY <1>5, <4>2, <5>1 DEF TextAt, L
      <4> QED
        BY <4>1, <4>2
    <3> QED
      BY <2>1, <3>2, <3>3, <3>4
  <2> QED
    BY <2>2, <2>3
<1>8. B \in (n + 1)..(L + (n + 1))
  BY <1>2, <1>3, <1>6
<1> QED
  BY <1>7, <1>8 DEF Shows, u, B, L, e

\* The character erased from the end of the line is the one left of the cursor.
LEMMA ShowsLess ==
  ASSUME NEW t \in Screens, NEW b \in Seq(Glyph), NEW d \in Lines,
         NEW n \in 1..(Length - 1), Shows(t, b, d, n)
  PROVE  /\ At(t) > 0
         /\ Shows(backspace(t), b, [d EXCEPT ![n - 1] = Nul], n - 1)
<1> DEFINE u == backspace(t)
           A == At(t)
           B == At(u)
           L == Len(b)
           e == [d EXCEPT ![n - 1] = Nul]
<1>1. A \in Nat
  BY ScreenIs
<1>2. L \in Nat /\ n \in Nat /\ n >= 1 /\ n <= Length - 1 /\ Length \in Nat
  BY LineFits
<1>3. /\ A >= n /\ A <= L + n
      /\ \A i \in 0..(A - 1) : t.screen[i] = TextAt(b, d, L + n - A + i)
  BY <1>1, <1>2 DEF Shows
<1>4. A > 0
  BY <1>1, <1>2, <1>3
<1>5. B = A - 1 /\ ShowsFrom(u, t.screen, 0)
  BY <1>4, Erased
<1>6. \A i \in 0..(Length - 1) : i # n - 1 => e[i] = d[i]
  BY DEF Lines
<1> HIDE DEF u, A, B, L, e
<1>7. ASSUME NEW i \in 0..(B - 1) PROVE u.screen[i] = TextAt(b, e, L + (n - 1) - B + i)
  <2>1. i \in 0..(A - 1) /\ i + 0 = i /\ i \in Nat /\ i < A - 1
    BY <1>1, <1>5
  <2>2. PICK k \in Nat : k = L + n - A + i /\ k < L + (n - 1) /\ L + (n - 1) - B + i = k
    <3>1. L + n - A + i \in Nat /\ L + n - A + i < L + (n - 1) /\ L + (n - 1) - B + i = L + n - A + i
      BY <1>1, <1>2, <1>3, <1>5, <2>1
    <3> QED
      BY <3>1
  <2>3. u.screen[i] = TextAt(b, d, k)
    BY <1>3, <1>5, <2>1, <2>2 DEF ShowsFrom, B
  <2>4. TextAt(b, e, k) = TextAt(b, d, k)
    <3>1. CASE k < L
      BY <3>1 DEF TextAt, L
    <3>2. CASE ~(k < L)
      <4>1. k - L \in 0..(Length - 1) /\ k - L # n - 1
        BY <1>2, <2>2, <3>2
      <4> QED
        BY <1>6, <3>2, <4>1 DEF TextAt, L
    <3> QED
      BY <3>1, <3>2
  <2> QED
    BY <2>2, <2>3, <2>4
<1>8. B \in (n - 1)..(L + (n - 1))
  BY <1>1, <1>2, <1>3, <1>5
<1> QED
  BY <1>4, <1>7, <1>8 DEF Shows, u, A, B, L, e

\* What stands before the line is what the screen showed when it began.
LEMMA ShowsPrompt ==
  ASSUME NEW u \in Screens, NEW d
  PROVE  /\ Shown(u) \in Seq(Glyph) /\ Len(Shown(u)) = At(u)
         /\ \A i \in 1..At(u) : Shown(u)[i] = u.screen[i - 1]
         /\ Shows(u, Shown(u), d, 0)
<1> DEFINE A == At(u)
           b == Shown(u)
<1>1. A \in Nat /\ A < Cells /\ u.screen \in [Cell -> Glyph] /\ Cells \in Nat
  BY ScreenIs, Rows
<1>2. ASSUME NEW i \in 1..A PROVE i - 1 \in Cell /\ u.screen[i - 1] \in Glyph
  BY <1>1, <1>2, CellsAre
<1>3. b \in Seq(Glyph) /\ Len(b) = A /\ \A i \in 1..A : b[i] = u.screen[i - 1]
  <2>1. b = [i \in 1..A |-> u.screen[i - 1]]
    BY DEF Shown
  <2> HIDE DEF b, A
  <2>2. b \in [1..A -> Glyph]
    BY <1>2, <2>1
  <2>3. b \in Seq(Glyph) /\ Len(b) = A
    BY <1>1, <2>2, SeqDef, LenProperties
  <2> QED
    BY <2>1, <2>3
<1> HIDE DEF b, A
<1>4. ASSUME NEW i \in 0..(A - 1) PROVE u.screen[i] = TextAt(b, d, Len(b) + 0 - A + i)
  <2>1. Len(b) + 0 - A + i = i /\ i < Len(b) /\ i + 1 \in 1..A /\ (i + 1) - 1 = i
    BY <1>1, <1>3
  <2> QED
    BY <1>3, <2>1 DEF TextAt
<1>5. A \in 0..(Len(b) + 0)
  BY <1>1, <1>3
<1> QED
  BY <1>3, <1>4, <1>5 DEF Shows, A, b

-----------------------------------------------------------------------------
(* The inductive invariant of the reader *)

Waits == {"top", "halt", "woken", "clear"}

\* Before boot the screen is full of messages; from then on nothing stands
\* behind the cursor; while a line is read the screen shows it.  The buffer
\* has no end in the middle of the line, and has one behind it when it is read.
LineInv ==
  /\ pc \in {"asleep", "run"} \cup Waits
  /\ amount \in 0..(Length - 1) /\ dst \in Lines /\ before \in Seq(Glyph) /\ console \in Terminal
  /\ pc = "asleep" => amount = 0 /\ dst[0] = Nul
  /\ pc # "asleep" => console \in Screens
  /\ \A i \in 0..(amount - 1) : dst[i] # Nul
  /\ pc = "run" => dst[amount] = Nul
  /\ pc \in Waits => console.blink = At(console) /\ Shows(console, before, dst, amount)

\* The counters, and what is on its way from the keyboard to the reader.
Plain ==
  /\ keybuffer \in Typed /\ meant \in Typed /\ c \in Typed
  /\ in_service \subseteq Irqs /\ Len(queue) <= QueueMax
  /\ elapsed \in 0..SleepTicks /\ events \in 0..MaxEvents

LEMMA InitLine == Init => LineInv
<1> SUFFICES ASSUME Init PROVE LineInv
  OBVIOUS
<1>1. /\ pc = "asleep" /\ amount = 0 /\ before = <<>> /\ dst = [i \in 0..(Length - 1) |-> Nul]
      /\ console = [x |-> 0, y |-> 1, screen |-> [i \in Cell |-> ":"], blink |-> Width]
  BY DEF Init
<1>2. /\ Length \in Nat /\ Length >= 1 /\ Width \in Nat \ {0} /\ Height \in Nat /\ Height >= 2
      /\ 0 \in 0..(Length - 1) /\ 0 \in 0..(Width - 1) /\ 1 \in 0..(Height - 1)
  BY LineFits, Rows
<1>3. Width \in Cell
  <2>1. Row(1) + 0 \in Cell
    BY <1>2, Position
  <2> QED
    BY <1>2, <2>1, Rows
<1>4. [i \in Cell |-> ":"] \in [Cell -> Glyph]
  BY DEF Glyph
<1>5. console \in Terminal
  BY <1>1, <1>2, <1>3, <1>4 DEF Terminal
<1>6. dst \in Lines /\ dst[0] = Nul
  BY <1>1, <1>2 DEF Lines, Typed
<1>7. before \in Seq(Glyph)
  BY <1>1
<1> QED
  BY <1>1, <1>2, <1>5, <1>6, <1>7 DEF LineInv, Waits

\* A step that leaves the line and the screen alone.
LEMMA LineKept ==
  ASSUME LineInv, UNCHANGED <<amount, dst, before, console>>,
         pc' = pc \/ (pc \in Waits /\ pc' \in Waits)
  PROVE  LineInv'
<1>1. pc' \in {"asleep", "run"} \cup Waits
  BY DEF LineInv
<1>2. (pc' = "asleep" <=> pc = "asleep") /\ (pc' = "run" <=> pc = "run") /\ (pc' \in Waits <=> pc \in Waits)
  BY DEF Waits
<1> QED
  BY <1>1, <1>2 DEF LineInv

LEMMA BootLine == LineInv /\ Boot => LineInv'
<1> SUFFICES ASSUME LineInv, Boot PROVE LineInv'
  OBVIOUS
<1>1. /\ pc = "asleep" /\ pc' = "run" /\ console' = clear_screen(console)
      /\ UNCHANGED <<amount, dst, before>>
  BY DEF Boot
<1>2. console' \in Screens /\ console' \in Terminal
  BY <1>1, ClearedIs DEF LineInv, Screens
<1>3. amount' = 0 /\ dst'[0] = Nul
  BY <1>1 DEF LineInv
<1> QED
  BY <1>1, <1>2, <1>3 DEF LineInv, Waits

\* The prompt is a character behind whatever the command printed.
LEMMA PromptLine ==
  ASSUME LineInv, NEW text \in Outputs, NEW cls \in BOOLEAN, Prompt(text, cls)
  PROVE  LineInv'
<1> DEFINE start == IF cls THEN clear_screen(console) ELSE console
<1>1. /\ pc = "run" /\ pc' = "top" /\ console' = putc(Printed(start, text), ">")
      /\ before' = Shown(console') /\ amount' = 0 /\ dst' = dst
  BY DEF Prompt
<1>2. console \in Terminal /\ console \in Screens /\ dst \in Lines
  BY <1>1 DEF LineInv
<1>3. start \in Screens
  BY <1>2, ClearedIs
<1> HIDE DEF start
<1>4. Printed(start, text) \in Screens
  BY <1>3, PrintedIs
<1>5. ">" \in Glyph
  BY DEF Glyph
<1>6. console' \in Screens /\ console'.blink = At(console')
  BY <1>1, <1>4, <1>5, PutGlyph
<1>7. before' \in Seq(Glyph) /\ Shows(console', before', dst', 0)
  BY <1>1, <1>6, ShowsPrompt
<1>8. 0 \in 0..(Length - 1) /\ \A i \in 0..(0 - 1) : dst'[i] # Nul
  BY LineFits
<1>9. console' \in Terminal
  BY <1>6 DEF Screens
<1> QED
  BY <1>1, <1>2, <1>6, <1>7, <1>8, <1>9 DEF LineInv, Waits

\* What read does with the character it took.
LEMMA UseLine ==
  ASSUME LineInv, c \in Typed, ClearAndUse
  PROVE  LineInv'
<1>1. /\ pc = "clear" /\ before' = before
      /\ EndLine \/ EraseLast \/ AppendChar \/ Nothing
  BY DEF ClearAndUse
<1>2. /\ amount \in 0..(Length - 1) /\ dst \in Lines /\ before \in Seq(Glyph)
      /\ console \in Screens /\ console.blink = At(console)
      /\ Shows(console, before, dst, amount) /\ \A i \in 0..(amount - 1) : dst[i] # Nul
      /\ Length \in Nat /\ Length >= 1 /\ Nul \in Typed /\ pc \in Waits
  BY <1>1, LineFits DEF LineInv, Waits, Typed
<1>3. CASE EndLine
  <2>1. /\ pc' = "run" /\ console' = putc(console, Enter) /\ amount' = amount
        /\ dst' = [dst EXCEPT ![amount] = Nul]
    BY <1>3 DEF EndLine
  <2>2. console' \in Screens /\ console' \in Terminal
    BY <1>2, <2>1, PutEnter DEF Screens
  <2>3. dst' \in Lines /\ dst'[amount] = Nul /\ \A i \in 0..(amount - 1) : dst'[i] = dst[i]
    BY <1>2, <2>1 DEF Lines
  <2> QED
    BY <1>1, <1>2, <2>1, <2>2, <2>3 DEF LineInv, Waits
<1>4. CASE EraseLast /\ amount > 0
  <2>1. /\ pc' = "top" /\ amount' = amount - 1 /\ console' = backspace(console)
        /\ dst' = [dst EXCEPT ![amount - 1] = Nul]
    BY <1>4 DEF EraseLast
  <2>2. amount \in 1..(Length - 1) /\ amount - 1 \in 0..(Length - 1)
    BY <1>2, <1>4
  <2>3. At(console) > 0 /\ Shows(console', before, dst', amount')
    BY <1>2, <2>1, <2>2, ShowsLess
  <2>4. console' \in Screens /\ console'.blink = At(console')
    BY <1>2, <2>1, <2>3, Erased
  <2>5. dst' \in Lines /\ \A i \in 0..(amount - 1 - 1) : dst'[i] = dst[i] /\ i \in 0..(amount - 1)
    BY <1>2, <2>1, <2>2 DEF Lines
  <2>6. console' \in Terminal
    BY <2>4 DEF Screens
  <2> QED
    BY <1>1, <1>2, <2>1, <2>2, <2>3, <2>4, <2>5, <2>6 DEF LineInv, Waits
<1>5. CASE AppendChar /\ amount < Length - 1
  <2>1. /\ pc' = "top" /\ amount' = amount + 1 /\ console' = putc(console, c)
        /\ dst' = [dst EXCEPT ![amount] = c] /\ c \notin {Nul, Enter, Back}
    BY <1>5 DEF AppendChar
  <2>2. amount \in 0..(Length - 2) /\ amount + 1 \in 0..(Length - 1)
    BY <1>2, <1>5
  <2>3. c \in Glyph /\ c # Nul
    BY <2>1 DEF Typed, Glyph
  <2>4. Shows(console', before, dst', amount')
    BY <1>2, <2>1, <2>2, <2>3, ShowsMore
  <2>5. console' \in Screens /\ console'.blink = At(console')
    BY <1>2, <2>1, <2>3, PutGlyph
  <2>6. dst' \in Lines /\ \A i \in 0..(amount + 1 - 1) : dst'[i] # Nul
    <3>1. dst' \in Lines /\ \A i \in 0..(Length - 1) : dst'[i] = IF i = amount THEN c ELSE dst[i]
      BY <1>2, <2>1 DEF Lines
    <3>2. ASSUME NEW i \in 0..(amount + 1 - 1) PROVE dst'[i] # Nul
      <4>1. i \in 0..(Length - 1) /\ (i = amount \/ i \in 0..(amount - 1))
        BY <1>2
      <4> QED
        BY <1>2, <2>3, <3>1, <4>1
    <3> QED
      BY <3>1, <3>2
  <2>7. console' \in Terminal
    BY <2>5 DEF Screens
  <2> QED
    BY <1>1, <1>2, <2>1, <2>2, <2>4, <2>5, <2>6, <2>7 DEF LineInv, Waits
<1>6. CASE (EraseLast /\ ~(amount > 0)) \/ (AppendChar /\ ~(amount < Length - 1)) \/ Nothing
  <2>1. pc' = "top" /\ UNCHANGED <<amount, dst, console>>
    BY <1>6 DEF EraseLast, AppendChar, Nothing
  <2> QED
    BY <1>1, <1>2, <2>1, LineKept DEF Waits
<1> QED
  BY <1>1, <1>3, <1>4, <1>5, <1>6

LEMMA LineSteps ==
  ASSUME LineInv, c \in Typed, [Next]_vars
  PROVE  LineInv'
<1>1. CASE Boot
  BY <1>1, BootLine
<1>2. CASE \E text \in Outputs, cls \in BOOLEAN : Prompt(text, cls)
  BY <1>2, PromptLine
<1>3. CASE ClearAndUse
  BY <1>3, UseLine
<1>4. CASE Halt \/ get_char
  <2>1. pc \in Waits /\ pc' \in Waits /\ UNCHANGED <<amount, dst, before, console>>
    BY <1>4 DEF Halt, get_char, Waits
  <2> QED
    BY <2>1, LineKept
<1>5. CASE TimerInterrupt \/ KeyboardInterrupt
  <2>1. pc' = AfterInterrupt /\ UNCHANGED <<amount, dst, before, console>>
    BY <1>5 DEF TimerInterrupt, KeyboardInterrupt
  <2>2. pc' = pc \/ (pc \in Waits /\ pc' \in Waits)
    BY <2>1 DEF AfterInterrupt, Waits
  <2> QED
    BY <2>1, <2>2, LineKept
<1>6. CASE (\E key \in Keys : Press(key) \/ Release(key)) \/ UNCHANGED vars
  <2>1. pc' = pc /\ UNCHANGED <<amount, dst, before, console>>
    BY <1>6 DEF Press, Release, Sends, thread, vars
  <2> QED
    BY <2>1, LineKept
<1> QED
  BY <1>1, <1>2, <1>3, <1>4, <1>5, <1>6 DEF Next, Kernel

LEMMA PlainSteps ==
  ASSUME KeyInv, Plain, [Next]_vars
  PROVE  Plain'
<1>0. /\ keybuffer \in Typed /\ meant \in Typed /\ c \in Typed /\ Nul \in Typed
      /\ in_service \subseteq Irqs /\ elapsed \in 0..SleepTicks /\ events \in 0..MaxEvents
      /\ SleepTicks \in Nat /\ MaxEvents \in Nat /\ queue \in Seq(Scan)
      /\ Len(queue) <= QueueMax /\ QueueMax \in Nat
  BY ScreenAssumption DEF Plain, Typed, KeyInv, KeyTypes
<1>1. CASE Kernel \/ UNCHANGED vars
  <2>1. /\ keybuffer' \in {keybuffer, Nul} /\ meant' \in {meant, Nul} /\ c' \in {c, keybuffer}
        /\ UNCHANGED <<in_service, elapsed, events, queue>>
    BY <1>1 DEF Kernel, Boot, Halt, get_char, ClearAndUse, Prompt, vars, keyboard, user, thread
  <2> QED
    BY <1>0, <2>1 DEF Plain
<1>2. CASE TimerInterrupt
  <2>1. /\ elapsed' = IF elapsed < SleepTicks THEN elapsed + 1 ELSE elapsed
        /\ in_service' = in_service /\ UNCHANGED <<keybuffer, meant, c, events, queue>>
    BY <1>2 DEF TimerInterrupt, EndOfInterrupt, keyboard, user
  <2> QED
    BY <1>0, <2>1 DEF Plain
<1>3. CASE KeyboardInterrupt
  <2> DEFINE scan == Head(queue)
  <2>1. /\ queue # <<>> /\ queue' = Tail(queue) /\ keyboard_handle_scan(scan)
        /\ in_service' = in_service /\ UNCHANGED <<elapsed, events, c>> /\ KeyTypes /\ Agreed
    BY <1>3 DEF KeyboardInterrupt, EndOfInterrupt, KeyInv
  <2>2. scan \in Scan /\ UserFlags' = UserFlags /\ Len(queue') <= QueueMax
    <3>1. scan \in Scan /\ Len(queue') = Len(queue) - 1 /\ Len(queue) \in Nat
      BY <1>0, <2>1
    <3>2. UserFlags' = UserFlags
      BY <1>3 DEF KeyboardInterrupt, UserFlags
    <3> QED
      BY <1>0, <3>1, <3>2
  <2> HIDE DEF scan
  <2>3. /\ keybuffer' = IF CharOf(scan, KernelFlags) = Nul THEN keybuffer
                        ELSE CharOf(scan, KernelFlags)
        /\ meant' = IF scan.means = Nul THEN meant ELSE scan.means
        /\ KernelFlags' = After(scan, KernelFlags)
    BY <2>1, <2>2, ScanHandled
  <2>4. scan.means = CharOf(scan, KernelFlags) /\ scan.means \in Typed
    BY <2>1, <2>2, <2>3, QueueHead DEF scan, Scan
  <2>5. keybuffer' \in Typed /\ meant' \in Typed
    BY <1>0, <2>3, <2>4
  <2> QED
    BY <1>0, <2>1, <2>2, <2>5 DEF Plain
<1>4. CASE \E key \in Keys : Press(key) \/ Release(key)
  <2>1. PICK sent : queue' = Append(queue, sent)
    BY <1>4 DEF Press, Release, Sends
  <2>2. /\ Len(queue) < QueueMax /\ events < MaxEvents /\ events' = events + 1
        /\ UNCHANGED <<keybuffer, meant, c, in_service, elapsed>>
    BY <1>4 DEF Press, Release, Sends, keyboard, thread
  <2>3. Len(queue') = Len(queue) + 1 /\ Len(queue) \in Nat
    BY <1>0, <2>1
  <2> QED
    BY <1>0, <2>2, <2>3 DEF Plain
<1> QED
  BY <1>1, <1>2, <1>3, <1>4 DEF Next

ConsoleInv == KeyInv /\ Plain /\ LineInv

LEMMA ConsoleAlways == Spec => []ConsoleInv
<1>1. Init => Plain
  BY ScreenAssumption DEF Init, Plain, Typed
<1>2. Init => LineInv
  BY InitLine
<1>3. KeyInv /\ Plain /\ LineInv /\ [Next]_vars => Plain' /\ LineInv'
  BY PlainSteps, LineSteps DEF Plain
<1> QED
  BY <1>1, <1>2, <1>3, KeysAlways, PTL DEF Spec, ConsoleInv

\* For a screen and a line of any size that fit, and any text of commands: the
\* cursor never leaves the screen, the line never its buffer, and every variable
\* keeps its type (validate_coords, backspace, read, keyboard_handle_scan).
THEOREM ConsoleTypes == Spec => []TypeOK
<1>1. ConsoleInv => TypeOK
  <2> SUFFICES ASSUME ConsoleInv PROVE TypeOK
    OBVIOUS
  <2>1. /\ {lshift_pressed, rshift_pressed, caps_lock_active, light} \subseteq BOOLEAN
        /\ held \subseteq Shifts
    BY DEF ConsoleInv, KeyInv, KeyTypes
  <2>2. /\ {keybuffer, meant, c} \subseteq Typed /\ in_service \subseteq Irqs
        /\ elapsed \in 0..SleepTicks /\ events \in 0..MaxEvents /\ Len(queue) <= QueueMax
    BY DEF ConsoleInv, Plain
  <2>3. pc \in {"asleep", "run", "top", "halt", "woken", "clear"}
    BY DEF ConsoleInv, LineInv, Waits
  <2>4. amount \in 0..(Length - 1) /\ dst \in [0..(Length - 1) -> Typed] /\ console \in Terminal
    BY DEF ConsoleInv, LineInv, Lines
  <2>5. /\ console.x \in 0..(Width - 1) /\ console.y \in 0..(Height - 1)
        /\ console.screen \in [Cell -> Glyph] /\ console.blink \in Cell
    BY <2>4 DEF Terminal
  <2> QED
    BY <2>1, <2>2, <2>3, <2>4, <2>5 DEF TypeOK
<1> QED
  BY <1>1, ConsoleAlways, PTL

\* For a screen and a line of any size that fit, and any text of commands:
\* whatever was wrapped, scrolled or erased, the screen shows up to the cursor
\* the end of what was printed and then exactly the line, nothing right of the
\* cursor, and the hardware cursor where the next character goes; a line that
\* was read ends at its amount (read, putc, backspace, validate_coords).
THEOREM LineIsShown == Spec => []LineShown
<1>1. ConsoleInv => LineShown
  <2> SUFFICES ASSUME ConsoleInv PROVE LineShown
    OBVIOUS
  <2>1. ASSUME pc = "run" PROVE dst[amount] = Nul /\ \A i \in 0..(amount - 1) : dst[i] # Nul
    BY <2>1 DEF ConsoleInv, LineInv
  <2>2. ASSUME Reading
        PROVE  LET text == before \o [i \in 1..amount |-> dst[i - 1]]
                   shown == Shown(console)
               IN /\ Len(shown) \in amount..Len(text)
                  /\ \A i \in 1..Len(shown) : shown[i] = text[Len(text) - Len(shown) + i]
                  /\ \A i \in Cell : i >= At(console) => console.screen[i] = Blank
                  /\ console.blink = At(console)
    <3> DEFINE line == [i \in 1..amount |-> dst[i - 1]]
               text == before \o line
               shown == Shown(console)
               A == At(console)
               L == Len(before)
    <3>1. /\ amount \in Nat /\ amount <= Length - 1 /\ Length \in Nat
          /\ dst \in Lines /\ before \in Seq(Glyph) /\ console \in Screens
          /\ console.blink = At(console) /\ Shows(console, before, dst, amount)
      BY <2>2, LineFits DEF ConsoleInv, LineInv, Waits, Reading
    <3>2. /\ A \in Nat /\ L \in Nat /\ A >= amount /\ A <= L + amount
          /\ \A i \in 0..(A - 1) : console.screen[i] = TextAt(before, dst, L + amount - A + i)
      BY <3>1, ScreenIs DEF Shows
    <3>3. Len(shown) = A /\ \A i \in 1..A : shown[i] = console.screen[i - 1]
      BY <3>1, ShowsPrompt
    <3>4. line \in Seq(Typed) /\ Len(line) = amount /\ \A i \in 1..amount : line[i] = dst[i - 1]
      <4>1. \A i \in 1..amount : i - 1 \in 0..(Length - 1)
        BY <3>1
      <4>2. line \in [1..amount -> Typed]
        BY <3>1, <4>1 DEF Lines
      <4>3. \A i \in 1..amount : line[i] = dst[i - 1]
        OBVIOUS
      <4> HIDE DEF line
      <4>4. line \in Seq(Typed) /\ Len(line) = amount
        BY <3>1, <4>2, SeqDef, LenProperties
      <4> QED
        BY <4>3, <4>4
    <3> HIDE DEF line
    <3>5. /\ Len(text) = L + amount
          /\ \A k \in 0..(L + amount - 1) : text[k + 1] = TextAt(before, dst, k)
      <4>1. before \in Seq(Glyph \cup Typed) /\ line \in Seq(Glyph \cup Typed)
        BY <3>1, <3>4
      <4>2. /\ Len(text) = L + amount
            /\ \A i \in 1..(L + amount) :
                 text[i] = IF i <= L THEN before[i] ELSE line[i - L]
        BY <3>4, <4>1, ConcatProperties
      <4> HIDE DEF text
      <4>3. ASSUME NEW k \in 0..(L + amount - 1) PROVE text[k + 1] = TextAt(before, dst, k)
        <5>1. k \in Nat /\ k + 1 \in 1..(L + amount)
          BY <3>1, <3>2
        <5>2. CASE k < L
          <6>1. k + 1 <= L
            BY <3>2, <5>1, <5>2
          <6> HIDE DEF L
          <6> QED
            BY <4>2, <5>1, <5>2, <6>1 DEF TextAt, L
        <5>3. CASE ~(k < L)
          <6>1. ~(k + 1 <= L) /\ (k + 1) - L \in 1..amount /\ ((k + 1) - L) - 1 = k - L
            BY <3>1, <3>2, <5>1, <5>3
          <6>2. text[k + 1] = line[(k + 1) - L]
            BY <4>2, <5>1, <6>1
          <6>3. line[(k + 1) - L] = dst[k - L]
            BY <3>4, <6>1
          <6> QED
            BY <5>3, <6>2, <6>3 DEF TextAt
        <5> QED
          BY <5>2, <5>3
      <4> QED
        BY <4>2, <4>3
    <3> HIDE DEF text, shown, A, L
    <3>6. ASSUME NEW i \in 1..A PROVE shown[i] = text[(L + amount) - A + i]
      <4>1. i - 1 \in 0..(A - 1)
        BY <3>2
      <4>2. PICK k \in 0..(L + amount - 1) : k = L + amount - A + (i - 1) /\ k + 1 = (L + amount) - A + i
        <5>1. /\ L + amount - A + (i - 1) \in 0..(L + amount - 1)
              /\ L + amount - A + (i - 1) + 1 = (L + amount) - A + i
          BY <3>1, <3>2
        <5> QED
          BY <5>1
      <4>3. shown[i] = TextAt(before, dst, k)
        BY <3>2, <3>3, <4>1, <4>2
      <4> QED
        BY <3>5, <4>2, <4>3
    <3>7. A \in amount..(L + amount)
      BY <3>1, <3>2
    <3>8. \A i \in Cell : i >= At(console) => console.screen[i] = Blank
      BY <3>1, ScreenIs
    <3>9. /\ Len(shown) \in amount..Len(text)
          /\ \A i \in 1..Len(shown) : shown[i] = text[Len(text) - Len(shown) + i]
      BY <3>3, <3>5, <3>6, <3>7
    <3> QED
      BY <3>1, <3>8, <3>9 DEF text, shown, line
  <2> QED
    BY <2>1, <2>2 DEF LineShown
<1> QED
  BY <1>1, ConsoleAlways, PTL
=============================================================================
