--------------------------------- MODULE ADB ---------------------------------
(***************************************************************************)
(* Mouse and keyboard input (src/src/adb.cpp).  The 60Hz thread records    *)
(* movements in mouse_x and mouse_y, the window thread records clicks in   *)
(* mouse_button and keys in a ring of events; ADBInterrupt(), in the 60Hz  *)
(* interrupt of the MacOS thread, reports them to the ADB handlers of the  *)
(* Mac, which are 68k code.  There is no lock; on one processor            *)
(* `mouse_x += x' is indivisible.                                          *)
(***************************************************************************)
EXTENDS Integers, Sequences, FiniteSets

CONSTANTS
  Codes,            \* Mac key codes
  KEY_BUFFER_SIZE,
  Buttons,          \* the mouse buttons, of 0 .. 2
  Points,           \* the coordinates, or the movements in relative mode
  Far,              \* the largest movement one report can carry (63)
  MaxEvents         \* bound on what the user does

ASSUME ADBAssumption ==
  /\ KEY_BUFFER_SIZE \in Nat \ {0, 1}
  /\ 0 \in Codes /\ Codes \subseteq 0 .. 127
  /\ 0 \in Buttons /\ Buttons \subseteq 0 .. 2
  /\ Points \subseteq Int /\ Far \in Nat
  /\ MaxEvents \in Nat

VARIABLES
  window,        \* where the window thread is
  ticker,        \* where the 60Hz thread is
  todo_y,        \* the y of the ADBMouseMoved() it is in
  events,        \* the number of keys, movements and clicks so far
  typed,         \* history: the key events so far
  overrun,       \* history: more keys were typed than the ring holds
  moved,         \* history: where the movements of the user lead
  relative_mouse,   \* set when the emulator starts, see ADBSetRelMouseMode()
  mouse_x, mouse_y, mouse_button,
  key_buffer, key_read_ptr, key_write_ptr, key_states,
  adb_base,      \* the Mac has initialised its ADB
  pc,            \* where ADBInterrupt() is
  mx, my,        \* its copies of the position
  old_mouse_x, old_mouse_y, old_mouse_button,
  mac_x, mac_y, mac_button,  \* what the Mac was told
  received       \* the key events the Mac got

userState == <<window, ticker, todo_y, events, typed, overrun, moved>>
mouse == <<relative_mouse, mouse_x, mouse_y, mouse_button>>
keyboard == <<key_buffer, key_read_ptr, key_write_ptr, key_states>>
old == <<old_mouse_x, old_mouse_y, old_mouse_button>>
interrupt == <<adb_base, pc, mx, my>>
mac == <<mac_x, mac_y, mac_button, received>>
adbVars == <<userState, mouse, keyboard, interrupt, old, mac>>

KeyEvent == [code : Codes, up : BOOLEAN]
Slots == 0 .. KEY_BUFFER_SIZE - 1

AdbInit ==
  /\ window = "ready" /\ ticker = "ready" /\ todo_y = 0
  /\ events = 0 /\ typed = <<>> /\ overrun = FALSE /\ moved = <<0, 0>>
  /\ relative_mouse \in BOOLEAN
  /\ mouse_x = 0 /\ mouse_y = 0 /\ mouse_button = {}
  /\ key_buffer = [s \in Slots |-> [code |-> 0, up |-> FALSE]]
  /\ key_read_ptr = 0 /\ key_write_ptr = 0 /\ key_states = {}
  /\ adb_base = FALSE /\ pc = "idle" /\ mx = 0 /\ my = 0
  /\ old_mouse_x = 0 /\ old_mouse_y = 0 /\ old_mouse_button = {}
  /\ mac_x = 0 /\ mac_y = 0 /\ mac_button = {} /\ received = <<>>

-----------------------------------------------------------------------------
(* The window thread and the 60Hz thread.                                  *)

NextKey(k) == (k + 1) % KEY_BUFFER_SIZE

\* ADBKeyDown() and ADBKeyUp(): the event, then the pointer and the matrix.
StoreKey(e) ==
  /\ window = "ready" /\ events < MaxEvents
  /\ window' = "key" /\ events' = events + 1
  /\ key_buffer' = [key_buffer EXCEPT ![key_write_ptr] = e]
  /\ typed' = Append(typed, e)
  /\ UNCHANGED <<ticker, todo_y, overrun, moved, mouse, key_read_ptr, key_write_ptr,
                 key_states, interrupt, old, mac>>

MutPublishKey ==
  /\ window = "key"
  /\ window' = "ready"
  /\ key_write_ptr' = NextKey(key_write_ptr)
  /\ overrun' = (overrun \/ key_write_ptr' = key_read_ptr)
  /\ key_states' = key_states \union {typed[Len(typed)].code}
  /\ UNCHANGED <<ticker, todo_y, events, typed, moved, mouse, key_buffer, key_read_ptr,
                 interrupt, old, mac>>

PublishKey ==
  /\ window = "key"
  /\ window' = "ready"
  /\ key_write_ptr' = NextKey(key_write_ptr)
  /\ overrun' = (overrun \/ key_write_ptr' = key_read_ptr)
  /\ LET e == typed[Len(typed)]
     IN  key_states' = IF e.up THEN key_states \ {e.code} ELSE key_states \union {e.code}
  /\ UNCHANGED <<ticker, todo_y, events, typed, moved, mouse, key_buffer, key_read_ptr,
                 interrupt, old, mac>>

\* ADBMouseMoved(): x, then y.
MoveX(x, y) ==
  /\ ticker = "ready" /\ events < MaxEvents
  /\ ticker' = "move" /\ events' = events + 1 /\ todo_y' = y
  /\ mouse_x' = IF relative_mouse THEN mouse_x + x ELSE x
  /\ moved' = IF relative_mouse THEN <<moved[1] + x, moved[2] + y>> ELSE <<x, y>>
  /\ UNCHANGED <<window, typed, overrun, relative_mouse, mouse_y, mouse_button, keyboard,
                 interrupt, old, mac>>

MoveY ==
  /\ ticker = "move"
  /\ ticker' = "ready" /\ todo_y' = 0
  /\ mouse_y' = IF relative_mouse THEN mouse_y + todo_y ELSE todo_y
  /\ UNCHANGED <<window, events, typed, overrun, moved, relative_mouse, mouse_x, mouse_button,
                 keyboard, interrupt, old, mac>>

\* ADBMouseDown() and ADBMouseUp().
Click(b) ==
  /\ window = "ready" /\ events < MaxEvents
  /\ events' = events + 1
  /\ mouse_button' = IF b \in mouse_button THEN mouse_button \ {b} ELSE mouse_button \union {b}
  /\ UNCHANGED <<window, ticker, todo_y, typed, overrun, moved, relative_mouse, mouse_x, mouse_y,
                 keyboard, interrupt, old, mac>>

-----------------------------------------------------------------------------
(* ADBInterrupt().                                                         *)

\* The Mac's ADB manager sets up its globals; until then nothing is reported.
InitADB ==
  /\ ~ adb_base
  /\ adb_base' = TRUE
  /\ UNCHANGED <<userState, mouse, keyboard, pc, mx, my, old, mac>>

\* A report has seven bits for each movement.
Clamp(d) == IF d > Far THEN Far ELSE IF d < - Far - 1 THEN - Far - 1 ELSE d

ReadX ==
  /\ pc = "idle" /\ adb_base
  /\ pc' = "read_y"
  /\ mx' = IF relative_mouse THEN Clamp(mouse_x) ELSE mouse_x
  /\ UNCHANGED <<userState, mouse, keyboard, adb_base, my, old, mac>>

ReadY ==
  /\ pc = "read_y"
  /\ pc' = "mouse"
  /\ my' = IF relative_mouse THEN Clamp(mouse_y) ELSE mouse_y
  /\ UNCHANGED <<userState, mouse, keyboard, adb_base, mx, old, mac>>

\* Relative mode reports movement and buttons together.
Movement ==
  /\ pc = "mouse" /\ relative_mouse
  /\ pc' = IF mx # 0 \/ my # 0 \/ mouse_button # old_mouse_button
           THEN "mouse_handler" ELSE "keys"
  /\ UNCHANGED <<userState, mouse, keyboard, adb_base, mx, my, old, mac>>

MutPosition ==
  /\ pc = "mouse" /\ ~ relative_mouse
  /\ pc' = "buttons"
  /\ IF mx # old_mouse_x
     THEN mac_x' = mx /\ mac_y' = my /\ old_mouse_x' = mx /\ old_mouse_y' = my
     ELSE UNCHANGED <<mac_x, mac_y, old_mouse_x, old_mouse_y>>
  /\ UNCHANGED <<userState, mouse, keyboard, adb_base, mx, my, old_mouse_button, mac_button,
                 received>>

\* Absolute mode writes the position to low memory, and reports the buttons
\* when the first one has changed.
Position ==
  /\ pc = "mouse" /\ ~ relative_mouse
  /\ pc' = "buttons"
  /\ IF mx # old_mouse_x \/ my # old_mouse_y
     THEN mac_x' = mx /\ mac_y' = my /\ old_mouse_x' = mx /\ old_mouse_y' = my
     ELSE UNCHANGED <<mac_x, mac_y, old_mouse_x, old_mouse_y>>
  /\ UNCHANGED <<userState, mouse, keyboard, adb_base, mx, my, old_mouse_button, mac_button,
                 received>>

FirstButton ==
  /\ pc = "buttons"
  /\ pc' = IF 0 \in mouse_button <=> 0 \in old_mouse_button THEN "keys" ELSE "mouse_handler"
  /\ UNCHANGED <<userState, mouse, keyboard, adb_base, mx, my, old, mac>>

\* The report is made of mx, my and the buttons as they are now; the Mac's
\* handler takes it.
MouseHandler ==
  /\ pc = "mouse_handler"
  /\ pc' = "mouse_done"
  /\ mac_button' = mouse_button
  /\ IF relative_mouse THEN mac_x' = mac_x + mx /\ mac_y' = mac_y + my
                 ELSE UNCHANGED <<mac_x, mac_y>>
  /\ UNCHANGED <<userState, mouse, keyboard, adb_base, mx, my, old, received>>

\* What happened while the handler ran is overwritten here.
MouseDone ==
  /\ pc = "mouse_done"
  /\ pc' = "keys"
  /\ IF relative_mouse THEN mouse_x' = 0 /\ mouse_y' = 0 ELSE UNCHANGED <<mouse_x, mouse_y>>
  /\ old_mouse_button' = mouse_button
  /\ UNCHANGED <<userState, relative_mouse, mouse_button, keyboard, adb_base, mx, my, old_mouse_x,
                 old_mouse_y, mac>>

\* The loop over the ring: one event to the Mac's handler at a time.
TestKeys ==
  /\ pc = "keys"
  /\ pc' = IF key_read_ptr = key_write_ptr THEN "idle" ELSE "key"
  /\ UNCHANGED <<userState, mouse, keyboard, adb_base, mx, my, old, mac>>

MutReportKey ==
  /\ pc = "key"
  /\ pc' = "keys"
  /\ received' = Append(received, key_buffer[key_read_ptr])
  /\ key_read_ptr' = key_write_ptr
  /\ UNCHANGED <<userState, mouse, key_buffer, key_write_ptr, key_states, adb_base, mx, my,
                 old, mac_x, mac_y, mac_button>>

ReportKey ==
  /\ pc = "key"
  /\ pc' = "keys"
  /\ received' = Append(received, key_buffer[key_read_ptr])
  /\ key_read_ptr' = NextKey(key_read_ptr)
  /\ UNCHANGED <<userState, mouse, key_buffer, key_write_ptr, key_states, adb_base, mx, my,
                 old, mac_x, mac_y, mac_button>>

-----------------------------------------------------------------------------
Window == PublishKey \/ (\E e \in KeyEvent : StoreKey(e)) \/ \E b \in Buttons : Click(b)

Ticker == MoveY \/ \E x, y \in Points : MoveX(x, y)

ADBInterrupt ==
  \/ ReadX \/ ReadY \/ Movement \/ Position \/ FirstButton \/ MouseHandler \/ MouseDone
  \/ TestKeys \/ ReportKey

AdbNext == Window \/ Ticker \/ InitADB \/ ADBInterrupt

AdbSpec == AdbInit /\ [][AdbNext]_adbVars

\* The Mac boots, the 60Hz interrupt comes again and again, the handlers
\* return, and the host threads get through the calls they have begun.
AdbFairSpec ==
  /\ AdbSpec
  /\ WF_adbVars(InitADB) /\ WF_adbVars(ADBInterrupt) /\ WF_adbVars(PublishKey) /\ WF_adbVars(MoveY)

-----------------------------------------------------------------------------
AdbTypeOK ==
  /\ window \in {"ready", "key"} /\ ticker \in {"ready", "move"} /\ todo_y \in Int
  /\ typed \in Seq(KeyEvent) /\ received \in Seq(KeyEvent)
  /\ events \in 0 .. MaxEvents /\ moved \in Int \X Int
  /\ {overrun, relative_mouse} \subseteq BOOLEAN
  /\ {mouse_x, mouse_y, mx, my, old_mouse_x, old_mouse_y, mac_x, mac_y} \subseteq Int
  /\ mouse_button \subseteq Buttons /\ old_mouse_button \subseteq Buttons
  /\ mac_button \subseteq Buttons /\ adb_base \in BOOLEAN
  /\ key_buffer \in [Slots -> KeyEvent]
  /\ key_read_ptr \in Slots /\ key_write_ptr \in Slots /\ key_states \subseteq Codes
  /\ pc \in {"idle", "read_y", "mouse", "buttons", "mouse_handler", "mouse_done", "keys",
           "key"}

\* The user has stopped, and the threads have recorded the last event.
Stopped == events = MaxEvents /\ window = "ready" /\ ticker = "ready"

\* The Mac gets the key events the user typed, in that order, none twice and
\* none invented, as long as the ring has not overrun (ADBKeyDown(),
\* ADBKeyUp() and ADBInterrupt() share it without a lock, and do not test
\* whether it is full).
KeysInOrder == ~ overrun => received = SubSeq(typed, 1, Len(received))

\* Once the user stops, the Mac has got all of them, and what they say of each
\* key agrees with the matrix key_states, which Talk register 2 reports.
KeysCatchUp ==
  Stopped ~> \/ overrun
             \/ /\ received = typed
                /\ \A c \in key_states : \E i \in DOMAIN received :
                      /\ received[i] = [code |-> c, up |-> FALSE]
                      /\ \A j \in i + 1 .. Len(received) : received[j].code # c

\* In absolute mode the pointer ends up where the user left it, although x
\* and y are written one after the other while ADBInterrupt() reads them.
PointerCatchesUp ==
  Stopped ~> relative_mouse \/ (mac_x = moved[1] /\ mac_y = moved[2])
=============================================================================
