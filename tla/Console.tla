------------------------------ MODULE Console ------------------------------
(* The kernel's terminal: the keyboard interrupt that turns scan codes into  *)
(* one buffered character (kbhandler.c, idt.c), the timer interrupt, the     *)
(* line reader that sleeps with hlt and takes the character in two steps     *)
(* (stdcon.c), and the text screen it echoes to (stdcon.c, vga.c).           *)
(*                                                                           *)
(* Two actors share keybuffer and the halted processor: the kernel's only    *)
(* thread and the interrupts.  An interrupt handler runs with interrupts     *)
(* off (gate type 0x8E), so that it is one step; it may come between any two *)
(* steps of the thread that touch what it shares.  The screen is the         *)
(* thread's alone, and printing a text is one step.                          *)
(* The person at the keyboard and the keyboard's own queue are external.     *)
EXTENDS Integers, Sequences

CONSTANTS
  Width, Height,  \* of the text screen (80 and 25)
  Length,         \* size of the buffer a line is read into (256)
  SleepTicks,     \* what sleep is called with before the prompt
  Outputs,        \* what commands print before the next line is read
  QueueMax,       \* bound: scan codes the keyboard holds back
  MaxEvents       \* bound: keys pressed and released

\* The line and the row of the prompt fit the screen, as 256 does 80 x 25.
ASSUME ScreenAssumption ==
  /\ Width \in Nat \ {0} /\ Height \in Nat \ {0, 1}
  /\ Length \in Nat \ {0} /\ Length - 1 =< Width * (Height - 2)
  /\ SleepTicks \in Nat /\ QueueMax \in Nat \ {0} /\ MaxEvents \in Nat

VARIABLES
  lshift_pressed, rshift_pressed, caps_lock_active, keybuffer,
  in_service,     \* the interrupts the PIC waits to see the end of
  elapsed,        \* timer_ticks since sleep was called, at most SleepTicks
  pc, c,          \* where the thread is, and the character it took
  dst, amount,    \* the line
  console,        \* cursor_X, cursor_Y, video memory, hardware cursor
  queue,          \* scan codes on their way, each with what it should give
  held, light,    \* shift keys held down, caps lock as its user believes it
  events,         \* key events so far
  meant,          \* the last character arrived and not yet taken, as it was meant
  before          \* the text left of the cursor when read was called

keyboard == <<lshift_pressed, rshift_pressed, caps_lock_active, keybuffer, meant>>
thread == <<pc, c, dst, amount, console, before>>
user == <<queue, held, light, events>>
vars == <<keyboard, in_service, elapsed, thread, user>>

Nul == "nul"
Enter == "enter"
Back == "back"
Blank == " "
Shifts == {"lshift", "rshift"}
\* A letter, a digit, a key without a character, and those with a meaning.
Keys == Shifts \cup {"caps", "a", "1", "ctrl", Enter, Back}
Irqs == {"timer", "keyboard"}
\* What a cell of the screen may show.
Glyph == {Blank, ":", ">", "x", "a", "A", "1", "!"}

\* Commands print text.
ASSUME OutputAssumption == \A text \in Outputs : text \in Seq(Glyph \cup {Enter})

-----------------------------------------------------------------------------
(* The screen *)

Cell == 0..(Width * Height - 1)
At(t) == t.y * Width + t.x

vga_move_cursor(t) == [t EXCEPT !.blink = At(t)]

vga_write_xy(t, char) ==
  IF t.x \in 0..(Width - 1) /\ t.y \in 0..(Height - 1)
  THEN [t EXCEPT !.screen[At(t)] = char] ELSE t

scroll_screen(t) ==
  [t EXCEPT !.screen = [i \in Cell |-> IF i + Width \in Cell THEN t.screen[i + Width] ELSE Blank]]

\* With the wrong comparison.
ScrolledLate(t) == IF t.y > Height THEN [scroll_screen(t) EXCEPT !.y = @ - 1] ELSE t
\* The loop of validate_coords runs at most once: y never exceeds Height.
Scrolled(t) == IF t.y >= Height THEN [scroll_screen(t) EXCEPT !.y = @ - 1] ELSE t

validate_coords(t) ==
  Scrolled(IF t.x >= Width THEN [t EXCEPT !.x = 0, !.y = @ + 1] ELSE t)

putc(t, char) ==
  vga_move_cursor(validate_coords(
    IF char = Enter THEN [t EXCEPT !.x = 0, !.y = @ + 1]
    ELSE [vga_write_xy(t, char) EXCEPT !.x = @ + 1]))

Printed(t, text) ==
  LET at[i \in 0..Len(text)] == IF i = 0 THEN t ELSE putc(at[i - 1], text[i]) IN at[Len(text)]

\* Without the step back to the row above.
backspace_in_row(t) ==
  IF t.x = 0 THEN t
  ELSE LET left == [t EXCEPT !.x = @ - 1] IN vga_move_cursor(vga_write_xy(left, Blank))

backspace(t) ==
  IF t.x = 0 /\ t.y = 0 THEN t
  ELSE LET left == IF t.x = 0 THEN [t EXCEPT !.x = Width - 1, !.y = @ - 1]
                   ELSE [t EXCEPT !.x = @ - 1]
       IN vga_move_cursor(vga_write_xy(left, Blank))

\* clear_screen leaves the hardware cursor where it is.
clear_screen(t) == [t EXCEPT !.x = 0, !.y = 0, !.screen = [i \in Cell |-> Blank]]

-----------------------------------------------------------------------------
(* The interrupts *)

kbd_us_normal == [k \in {"a", "1", "ctrl", Enter, Back} |-> IF k = "ctrl" THEN Nul ELSE k]
kbd_us_shift == [kbd_us_normal EXCEPT !["a"] = "A", !["1"] = "!"]

Ascii(key, shift, caps) ==
  LET entry == IF shift THEN kbd_us_shift[key] ELSE kbd_us_normal[key]
  IN IF entry \in {"a", "A"} THEN IF shift # caps THEN "A" ELSE "a" ELSE entry

\* Either shift key moves the flag of the right one.
RightShiftAfterEither(scan) == IF scan.key \in Shifts THEN ~scan.release ELSE rshift_pressed
\* Which shift flags a scan code leaves set.
LeftShiftAfter(scan) == IF scan.key = "lshift" THEN ~scan.release ELSE lshift_pressed
RightShiftAfter(scan) == IF scan.key = "rshift" THEN ~scan.release ELSE rshift_pressed

keyboard_handle_scan(scan) ==
  LET typed == IF scan.release \/ scan.key \in Shifts \cup {"caps"} THEN Nul
               ELSE Ascii(scan.key, lshift_pressed \/ rshift_pressed, caps_lock_active)
  IN /\ lshift_pressed' = LeftShiftAfter(scan)
     /\ rshift_pressed' = RightShiftAfter(scan)
     /\ caps_lock_active' = (caps_lock_active # (scan.key = "caps" /\ ~scan.release))
     /\ keybuffer' = IF typed = Nul THEN keybuffer ELSE typed
     /\ meant' = IF scan.means = Nul THEN meant ELSE scan.means

\* pic_remap lets both through; the timer's line has the higher priority.
Delivered(irq) == in_service \subseteq (Irqs \ {"timer", irq})

\* The end-of-interrupt command in one branch of isr_handler only.
EndOfTimerOnly(irq) == IF irq = "timer" THEN in_service ELSE in_service \cup {irq}
\* The PIC is told of the end of every interrupt.
EndOfInterrupt(irq) == in_service

\* iretq goes on behind the hlt that the interrupt ended.
AfterInterrupt == IF pc = "halt" THEN "woken" ELSE pc

TimerInterrupt ==
  /\ Delivered("timer")
  /\ elapsed' = IF elapsed < SleepTicks THEN elapsed + 1 ELSE elapsed
  /\ in_service' = EndOfInterrupt("timer")
  /\ pc' = AfterInterrupt
  /\ UNCHANGED <<keyboard, c, dst, amount, console, before, user>>

KeyboardInterrupt ==
  /\ Delivered("keyboard") /\ queue # <<>>
  /\ keyboard_handle_scan(Head(queue))
  /\ queue' = Tail(queue)
  /\ in_service' = EndOfInterrupt("keyboard")
  /\ pc' = AfterInterrupt
  /\ UNCHANGED <<elapsed, c, dst, amount, console, before, held, light, events>>

-----------------------------------------------------------------------------
(* The kernel's thread *)

Shown(t) == [i \in 1..At(t) |-> t.screen[i - 1]]

\* sleep returns and kernel_main clears the screen of the boot messages.
Boot ==
  /\ pc = "asleep" /\ elapsed >= SleepTicks
  /\ console' = clear_screen(console)
  /\ pc' = "run"
  /\ UNCHANGED <<keyboard, in_service, elapsed, c, dst, amount, before, user>>

\* The command prints, the loop of shell_poweron prompts and calls read.
Prompt(text, cls) ==
  /\ pc = "run"
  /\ LET start == IF cls THEN clear_screen(console) ELSE console IN
     console' = putc(Printed(start, text), ">")
  /\ before' = Shown(console')
  /\ amount' = 0
  /\ pc' = "top"
  /\ UNCHANGED <<keyboard, in_service, elapsed, c, dst, user>>

Halt ==
  /\ pc = "top"
  /\ pc' = "halt"
  /\ UNCHANGED <<keyboard, in_service, elapsed, c, dst, amount, console, before, user>>

get_char ==
  /\ pc = "woken"
  /\ c' = keybuffer
  /\ meant' = Nul
  /\ pc' = "clear"
  /\ UNCHANGED <<lshift_pressed, rshift_pressed, caps_lock_active, keybuffer, in_service, elapsed,
                 dst, amount, console, before, user>>

\* read ends: the buffer holds earlier lines, so that it needs its own end.
EndLine ==
  /\ c = Enter
  /\ console' = putc(console, Enter)
  /\ dst' = [dst EXCEPT ![amount] = Nul]
  /\ pc' = "run"
  /\ UNCHANGED amount

EraseLast ==
  /\ c = Back
  /\ IF amount > 0
     THEN /\ amount' = amount - 1
          /\ dst' = [dst EXCEPT ![amount - 1] = Nul]
          /\ console' = backspace(console)
     ELSE UNCHANGED <<amount, dst, console>>
  /\ pc' = "top"

AppendChar ==
  /\ c \notin {Nul, Enter, Back}
  /\ IF amount < Length - 1
     THEN /\ dst' = [dst EXCEPT ![amount] = c]
          /\ amount' = amount + 1
          /\ console' = putc(console, c)
     ELSE UNCHANGED <<amount, dst, console>>
  /\ pc' = "top"

Nothing == c = Nul /\ pc' = "top" /\ UNCHANGED <<amount, dst, console>>

\* clear_keybuffer, and what read does with the character.
ClearAndUse ==
  /\ pc = "clear"
  /\ keybuffer' = Nul
  /\ meant' = Nul
  /\ EndLine \/ EraseLast \/ AppendChar \/ Nothing
  /\ UNCHANGED <<lshift_pressed, rshift_pressed, caps_lock_active, in_service, elapsed,
                 c, before, user>>

-----------------------------------------------------------------------------
(* The person at the keyboard *)

\* What the key's top says, with the shift keys held and the light as it is.
Means(key) ==
  CASE key \in Shifts \cup {"caps", "ctrl"} -> Nul
    [] key = "a" -> IF (held # {}) # light THEN "A" ELSE "a"
    [] key = "1" /\ held # {} -> "!"
    [] OTHER -> key

Sends(key, release) ==
  /\ events < MaxEvents /\ Len(queue) < QueueMax
  /\ events' = events + 1
  /\ queue' = Append(queue, [key |-> key, release |-> release,
                             means |-> IF release THEN Nul ELSE Means(key)])
  /\ UNCHANGED <<keyboard, in_service, elapsed, thread>>

Press(key) ==
  /\ key \notin held
  /\ held' = held \cup ({key} \cap Shifts)
  /\ light' = (light # (key = "caps"))
  /\ Sends(key, FALSE)

\* The release of a key that is no shift key changes nothing but the queue.
Release(key) ==
  /\ key \in held \cup {"ctrl"}
  /\ held' = held \ {key}
  /\ UNCHANGED light
  /\ Sends(key, TRUE)

-----------------------------------------------------------------------------
Init ==
  /\ lshift_pressed = FALSE /\ rshift_pressed = FALSE /\ caps_lock_active = FALSE
  /\ keybuffer = Nul /\ meant = Nul
  /\ in_service = {} /\ elapsed = 0
  /\ pc = "asleep" /\ c = Nul /\ amount = 0
  /\ dst = [i \in 0..(Length - 1) |-> Nul]
  /\ console = [x |-> 0, y |-> 1, screen |-> [i \in Cell |-> ":"], blink |-> Width]
  /\ queue = <<>> /\ held = {} /\ light = FALSE /\ events = 0 /\ before = <<>>

Kernel ==
  \/ Boot \/ Halt \/ get_char \/ ClearAndUse
  \/ \E text \in Outputs, cls \in BOOLEAN : Prompt(text, cls)

Next ==
  \/ Kernel \/ TimerInterrupt \/ KeyboardInterrupt
  \/ \E key \in Keys : Press(key) \/ Release(key)

\* The processor goes on between interrupts, the timer ticks, and a scan code
\* that is waiting raises its interrupt.  Nobody has to press a key.
Spec ==
  /\ Init /\ [][Next]_vars
  /\ WF_vars(Kernel) /\ WF_vars(TimerInterrupt) /\ WF_vars(KeyboardInterrupt)

-----------------------------------------------------------------------------
(* Properties *)

Typed == {Nul, Enter, Back, "a", "A", "1", "!"}
Reading == pc \in {"top", "halt", "woken", "clear"}

\* Types; the cursor never leaves the screen and the line never its buffer
\* (validate_coords, backspace, read).
TypeOK ==
  /\ {lshift_pressed, rshift_pressed, caps_lock_active, light} \subseteq BOOLEAN
  /\ {keybuffer, meant, c} \subseteq Typed
  /\ in_service \subseteq Irqs
  /\ elapsed \in 0..SleepTicks /\ events \in 0..MaxEvents
  /\ pc \in {"asleep", "run", "top", "halt", "woken", "clear"}
  /\ amount \in 0..(Length - 1)
  /\ dst \in [0..(Length - 1) -> Typed]
  /\ console.x \in 0..(Width - 1) /\ console.y \in 0..(Height - 1)
  /\ console.screen \in [Cell -> Glyph] /\ console.blink \in Cell
  /\ Len(queue) =< QueueMax /\ held \subseteq Shifts

\* While a line is read the screen shows, up to the cursor, what was printed
\* before it and then exactly the characters of dst that count, whatever was
\* wrapped, scrolled or erased; all of the line is there, nothing stands right
\* of the cursor, and the hardware cursor blinks where the next character goes.
\* A line that was read ends at its amount and not in the leftovers of an
\* earlier one (read, putc, backspace, validate_coords).
LineShown ==
  /\ Reading =>
       LET text == before \o [i \in 1..amount |-> dst[i - 1]]
           shown == Shown(console)
       IN /\ Len(shown) \in amount..Len(text)
          /\ \A i \in 1..Len(shown) : shown[i] = text[Len(text) - Len(shown) + i]
          /\ \A i \in Cell : i >= At(console) => console.screen[i] = Blank
          /\ console.blink = At(console)
  /\ pc = "run" => /\ dst[amount] = Nul
                   /\ \A i \in 0..(amount - 1) : dst[i] # Nul

\* What the reader finds in keybuffer is the latest character typed and not yet
\* taken, in the case and with the shift that held when its key was pressed,
\* however late the interrupt; a character is never taken twice.  (One may be
\* lost: a later key, or the clear of a getc that came too early, wipes it.)
KeysAsMeant ==
  keybuffer # Nul => keybuffer = meant \/ (pc = "clear" /\ keybuffer = c)

\* Every scan code is handled, and a key that is in the buffer when the reader
\* halts, even if its interrupt came just before the hlt, reaches the reader:
\* the timer wakes it (isr_handler, read).
KeysGetThrough ==
  /\ queue # <<>> ~> queue = <<>>
  /\ (pc = "halt" /\ keybuffer # Nul) ~> (pc = "clear" /\ c # Nul)

=============================================================================
