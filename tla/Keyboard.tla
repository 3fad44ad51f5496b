------------------------------ MODULE Keyboard ------------------------------
(***************************************************************************)
(* The keyboard driver of keyboard.c: scancodes come one byte for each     *)
(* interrupt, are turned into characters, and wait in a ring buffer for a  *)
(* reader that runs with interrupts on, as hlt needs them: nothing in the  *)
(* repository calls keyboard_getchar yet, and a system call could not.     *)
(* The kernel debugger takes scancodes too: while it runs, interrupts are  *)
(* off and it polls the controller itself, so the driver does not see      *)
(* them.                                                                   *)
(*                                                                         *)
(* A key is <<e, code>>; one with e = TRUE sends the prefix 0xE0 first.    *)
(* Both Ctrl keys have the code "ctrl", both Alt keys "alt".               *)
(***************************************************************************)
EXTENDS Integers, Sequences

CONSTANTS KBD_BUFFER_SIZE,
          Keys,            \* the keys that are used
          Letters          \* the codes that scancode_ascii maps to a letter

Shifts == {"shift_l", "shift_r"}
Modifiers == {"shift", "ctrl", "alt"}
Nothing == <<>>

ASSUME KeyboardAssumption ==
  /\ KBD_BUFFER_SIZE \in Nat /\ KBD_BUFFER_SIZE > 1
  /\ Keys \subseteq BOOLEAN \X STRING /\ Letters \subseteq STRING
  /\ Letters \cap (Shifts \cup Modifiers \cup {"caps"}) = {}
  /\ \A k \in Keys : k[2] # "prefix"      \* 0xE0 is the code of no key

VARIABLES
  kbd_buffer, kbd_head, kbd_tail,
  down,          \* shift_down, ctrl_down, alt_down: the modifiers taken to be down
  caps_lock, extended,
  mode,          \* "kernel", or "kdb" while the debugger polls
  pc, c,         \* keyboard_getchar: where it is, and its variable c
  held,          \* the modifier keys that are really held
  wire,          \* the bytes the controller has still to send for a key
  broke          \* history: a breakpoint has entered the debugger

ringVars == <<kbd_buffer, kbd_head, kbd_tail>>
modVars  == <<down, caps_lock, extended>>
vars     == <<ringVars, modVars, mode, pc, c, held, wire, broke>>

-----------------------------------------------------------------------------
(* The ring buffer. *)

After(i) == (i + 1) % KBD_BUFFER_SIZE

NeverFull(h, t) == FALSE                      \* (mutant: the oldest key is overwritten)
Full(h, t) == After(h) = t

kbd_push(ch) ==
  IF Full(kbd_head, kbd_tail) THEN UNCHANGED ringVars
  ELSE /\ kbd_buffer' = [kbd_buffer EXCEPT ![kbd_head] = ch]
       /\ kbd_head' = After(kbd_head)
       /\ UNCHANGED kbd_tail

keyboard_available == kbd_head # kbd_tail

-----------------------------------------------------------------------------
(***************************************************************************)
(* keyboard_callback, for one byte b: the prefix, or a code that goes down *)
(* or up.                                                                  *)
(***************************************************************************)
Prefix == [code |-> "prefix", up |-> FALSE]

ModifierOf(code) == IF code \in Shifts THEN {"shift"} ELSE {code} \cap Modifiers

\* An extended key: only Ctrl and Alt mean anything.
ExtendedKey(b) ==
  /\ extended' = FALSE
  /\ down' = IF b.up THEN down \ (ModifierOf(b.code) \cap {"ctrl", "alt"})
             ELSE down \cup (ModifierOf(b.code) \cap {"ctrl", "alt"})
  /\ UNCHANGED <<ringVars, caps_lock, mode>>

\* Caps Lock and Shift undo each other.
Character(code) == <<code, ("shift" \in down) # caps_lock>>

KeepsModifiers == down                        \* (mutant: modifiers not reset)
DownInDebugger == {}

\* A key that is not extended.
PlainKey(b) ==
  /\ UNCHANGED extended
  /\ \/ /\ b.up
        /\ down' = down \ ModifierOf(b.code)
        /\ UNCHANGED <<ringVars, caps_lock, mode>>
     \/ /\ ~b.up /\ ModifierOf(b.code) # {}
        /\ down' = down \cup ModifierOf(b.code)
        /\ UNCHANGED <<ringVars, caps_lock, mode>>
     \/ /\ ~b.up /\ b.code = "caps"
        /\ caps_lock' = ~caps_lock
        /\ UNCHANGED <<ringVars, down, mode>>
     \/ /\ ~b.up /\ b.code = "d" /\ "ctrl" \in down
        /\ down' = DownInDebugger /\ mode' = "kdb"
        /\ UNCHANGED <<ringVars, caps_lock>>
     \/ /\ ~b.up /\ b.code \in Letters /\ ~(b.code = "d" /\ "ctrl" \in down)
        /\ kbd_push(Character(b.code))
        /\ UNCHANGED <<down, caps_lock, mode>>

keyboard_callback(b) ==
  /\ mode = "kernel"
  /\ IF b = Prefix THEN extended' = TRUE /\ UNCHANGED <<ringVars, down, caps_lock, mode>>
     ELSE IF extended THEN ExtendedKey(b) ELSE PlainKey(b)
  /\ pc' = IF pc = "halt" THEN "test" ELSE pc
  /\ UNCHANGED <<c, broke>>

\* The debugger reads the byte; what it does with it is in module Console.
kdb_polls(b) == mode = "kdb" /\ UNCHANGED <<ringVars, modVars, mode, pc, c, broke>>

Byte(b) == keyboard_callback(b) \/ kdb_polls(b)

-----------------------------------------------------------------------------
(* The keyboard: a key goes down or up, and the controller sends its bytes. *)

Holds(k, up) == IF ModifierOf(k[2]) = {} THEN held
                ELSE IF up THEN held \ {k} ELSE held \cup {k}

key(k, up) ==
  /\ wire = <<>>
  /\ ModifierOf(k[2]) # {} => (up <=> k \in held)
  /\ held' = Holds(k, up)
  /\ LET b == [code |-> k[2], up |-> up]
     IN  IF k[1] THEN Byte(Prefix) /\ wire' = <<b>> ELSE Byte(b) /\ UNCHANGED wire

second_byte ==
  /\ wire # <<>>
  /\ Byte(Head(wire)) /\ wire' = <<>>
  /\ UNCHANGED held

-----------------------------------------------------------------------------
(* keyboard_getchar, and the other ways into and out of the debugger. *)

Calm == mode = "kernel" /\ UNCHANGED <<modVars, mode, held, wire, broke>>

getchar_call == Calm /\ pc = "idle" /\ pc' = "test" /\ UNCHANGED <<ringVars, c>>

getchar_test ==
  /\ Calm /\ pc = "test"
  /\ pc' = IF keyboard_available THEN "read" ELSE "empty"
  /\ UNCHANGED <<ringVars, c>>

\* The hlt; an interrupt before it does not end it.
getchar_halt == Calm /\ pc = "empty" /\ pc' = "halt" /\ UNCHANGED <<ringVars, c>>

getchar_read ==
  /\ Calm /\ pc = "read"
  /\ c' = kbd_buffer[kbd_tail] /\ pc' = "advance"
  /\ UNCHANGED ringVars

getchar_advance ==
  /\ Calm /\ pc = "advance"
  /\ kbd_tail' = After(kbd_tail)
  /\ c' = Nothing /\ pc' = "idle"
  /\ UNCHANGED <<kbd_buffer, kbd_head>>

\* The timer's interrupt ends the hlt as any other does.
OnlyKeysWake == FALSE                         \* (mutant: no other interrupt)
TimerWakes == pc = "halt"
timer_interrupt == Calm /\ TimerWakes /\ pc' = "test" /\ UNCHANGED <<ringVars, c>>

\* int3, which isr_handler takes to the debugger as it is; and its c command.
breakpoint ==
  /\ mode = "kernel" /\ mode' = "kdb" /\ broke' = TRUE
  /\ UNCHANGED <<ringVars, modVars, pc, c, held, wire>>

kdb_return ==
  /\ mode = "kdb" /\ wire = <<>> /\ mode' = "kernel"
  /\ UNCHANGED <<ringVars, modVars, pc, c, held, wire, broke>>

Init ==
  /\ kbd_buffer = [i \in 0 .. KBD_BUFFER_SIZE - 1 |-> Nothing]
  /\ kbd_head = 0 /\ kbd_tail = 0
  /\ down = {} /\ caps_lock = FALSE /\ extended = FALSE
  /\ mode = "kernel" /\ pc = "idle" /\ c = Nothing
  /\ held = {} /\ wire = <<>> /\ broke = FALSE

Reader == getchar_test \/ getchar_halt \/ getchar_read \/ getchar_advance

Next ==
  \/ \E k \in Keys, up \in BOOLEAN : key(k, up)
  \/ second_byte \/ getchar_call \/ Reader
  \/ timer_interrupt \/ breakpoint \/ kdb_return

\* A program that has called keyboard_getchar goes on, and the timer ticks.
Spec == Init /\ [][Next]_vars /\ WF_vars(Reader) /\ WF_vars(timer_interrupt)

-----------------------------------------------------------------------------
\* The characters in the ring, oldest first.
Waiting == [i \in 1 .. (kbd_head - kbd_tail) % KBD_BUFFER_SIZE |->
              kbd_buffer[(kbd_tail + i - 1) % KBD_BUFFER_SIZE]]

\* The ring is a queue, with the interrupt handler pushing between any two steps
\* of keyboard_getchar: nothing is lost unless the ring is full, and the character
\* that is returned is the one that is removed.
Queue == INSTANCE KeyQueue WITH
  Characters <- Letters \X BOOLEAN, Capacity <- KBD_BUFFER_SIZE - 1,
  queue <- Waiting, hand <- c
QueueSpec == Queue!Spec

\* A reader that waits while there is a character gets it: a key that comes
\* between the test and the hlt of keyboard_getchar is found after the next tick,
\* unless the debugger is in the way.
KeyRead == pc \in {"test", "empty", "halt"} /\ keyboard_available ~> pc = "idle" \/ mode = "kdb"

\* No modifier sticks: one that the driver takes to be down has a key that is
\* held, also after the debugger was entered with Ctrl+D and has swallowed the
\* release of Ctrl; and a prefix is never left over for the wrong key.  A
\* breakpoint gives no such promise, since it does not reset the modifiers.
NoneStuck ==
  ~broke /\ mode = "kernel" =>
    /\ extended = (wire # <<>>)
    /\ wire = <<>> => \A m \in down : \E k \in held : m \in ModifierOf(k[2])
=============================================================================
