----------------------------- MODULE FrameBuffer -----------------------------
(***************************************************************************)
(* The linear frame buffer display of Windows/video_windows.cpp and the    *)
(* desktop switch of Windows/desktop_windows.cpp.  The Mac draws directly  *)
(* on the DirectDraw surface, which the frame buffer thread keeps locked.  *)
(* Each command to that thread (a new palette, leaving the screen, coming  *)
(* back) is a hand-shake over two semaphores inside fb_csection; the       *)
(* window thread suspends the CPU thread while it switches desktops.       *)
(***************************************************************************)
EXTENDS Integers, Sequences

CONSTANT CpuPalettes   \* whether the Mac sets palettes (8 bits per pixel)

ASSUME FrameBufferAssumption == CpuPalettes \in BOOLEAN

Callers == {"main", "cpu"}
Memories == {"surface", "the_buffer"}

VARIABLES
  is_frame_locked,
  lock_next,
  waiting_to_be_locked,
  fb_current_command,
  fb_signal, fb_reply,   \* the two semaphores
  fb_csection,           \* its owner, or "none"
  draw_csection,
  MacFrameBaseHost,      \* where the Mac draws: "surface" or "the_buffer"
  latest,                \* the memories that hold the Mac's latest picture
  behind,                \* history: why the surface may not hold it
  is_own_desktop,
  pc,                    \* where each of the three threads is
  todo,                  \* the commands that swap_desktop() still has to give
  cpu_state              \* "running", "suspended" or "terminated"

fbVars == <<is_frame_locked, lock_next, waiting_to_be_locked>>
pictureVars == <<MacFrameBaseHost, latest, behind>>
callVars == <<fb_csection, draw_csection, is_own_desktop, todo, cpu_state>>
vars == <<fbVars, fb_current_command, fb_signal, fb_reply, pictureVars, callVars, pc>>

Goto(t, label) == pc' = [pc EXCEPT ![t] = label]

\* start_video_thread() has run, and the thread has locked the surface.
Init ==
  /\ is_frame_locked = TRUE /\ lock_next = TRUE /\ waiting_to_be_locked = FALSE
  /\ fb_current_command = "FB_NONE" /\ fb_signal = 0 /\ fb_reply = 0
  /\ fb_csection = "none" /\ draw_csection = "none"
  /\ MacFrameBaseHost = "surface" /\ latest = {"surface"} /\ behind = {}
  /\ is_own_desktop = TRUE
  /\ pc = [t \in Callers \union {"fb"} |-> IF t = "fb" THEN "wait" ELSE "run"]
  /\ todo = <<>> /\ cpu_state = "running"

-----------------------------------------------------------------------------
(* redraw_thread_fb().                                                     *)

\* Lock() fails when the surface is lost and cannot be restored.
LockSurface ==
  /\ pc["fb"] = "lock"
  /\ \/ /\ lock_next
        /\ is_frame_locked' = TRUE /\ MacFrameBaseHost' = "surface"
        /\ Goto("fb", "restore")
        /\ UNCHANGED behind
     \/ /\ UNCHANGED <<is_frame_locked, MacFrameBaseHost>>
        /\ behind' = IF lock_next THEN behind \union {"refused"} ELSE behind
        /\ Goto("fb", "ready")
  /\ UNCHANGED <<lock_next, waiting_to_be_locked, fb_current_command, fb_signal, fb_reply,
                 latest, callVars>>

\* fb_blit() copies one memory to the other, the Mac's latest picture or not.
Blit(from) == IF from \in latest THEN Memories ELSE {}

MutRestoreFrame ==
  /\ pc["fb"] = "restore"
  /\ Goto("fb", "ready")
  /\ UNCHANGED <<fbVars, fb_current_command, fb_signal, fb_reply, pictureVars, callVars>>

\* fb_blit(false), if the command is still the one that caused the lock.
RestoreFrame ==
  /\ pc["fb"] = "restore"
  /\ latest' = IF fb_current_command = "FB_LOCK" THEN Blit("the_buffer") ELSE latest
  /\ Goto("fb", "ready")
  /\ UNCHANGED <<fbVars, fb_current_command, fb_signal, fb_reply, MacFrameBaseHost, behind,
                 callVars>>

Ready ==
  /\ pc["fb"] = "ready"
  /\ lock_next' = (lock_next \/ ~ waiting_to_be_locked)
  /\ Goto("fb", "wait")
  /\ UNCHANGED <<is_frame_locked, waiting_to_be_locked, fb_current_command, fb_signal,
                 fb_reply, pictureVars, callVars>>

\* The Mac draws in the_buffer before the surface is unlocked; FB_UNLOCK
\* copies the picture there, fb_blit(true).
TakeCommand ==
  /\ pc["fb"] = "wait" /\ fb_signal = 1
  /\ fb_signal' = 0
  /\ IF is_frame_locked
     THEN /\ latest' = IF fb_current_command = "FB_UNLOCK" THEN Blit("surface") ELSE latest
          /\ UNCHANGED behind
          /\ MacFrameBaseHost' = "the_buffer"
          /\ Goto("fb", "unlock")
     ELSE UNCHANGED pictureVars /\ Goto("fb", "handle")
  /\ UNCHANGED <<fbVars, fb_current_command, fb_reply, callVars>>

\* Unlock() fails when the surface is lost; then it is not tried again.
UnlockSurface ==
  /\ pc["fb"] = "unlock"
  /\ \/ is_frame_locked' = FALSE /\ UNCHANGED behind
     \/ behind' = behind \union {"refused"} /\ UNCHANGED is_frame_locked
  /\ Goto("fb", "handle")
  /\ UNCHANGED <<lock_next, waiting_to_be_locked, fb_current_command, fb_signal, fb_reply,
                 MacFrameBaseHost, latest, callVars>>

\* While another desktop is shown every command but FB_LOCK and FB_QUIT is
\* dropped.
Dropped == waiting_to_be_locked /\ fb_current_command \notin {"FB_LOCK", "FB_QUIT"}

MutAway == waiting_to_be_locked /\ fb_current_command # "FB_LOCK"

Away ==
  \/ fb_current_command = "FB_UNLOCK"
  \/ waiting_to_be_locked /\ fb_current_command # "FB_LOCK"

MutHandleCommand ==
  /\ pc["fb"] = "handle"
  /\ fb_current_command' = IF Dropped THEN "FB_NONE" ELSE fb_current_command
  /\ lock_next' = CASE Dropped \/ fb_current_command = "FB_UNLOCK" -> FALSE
                    [] fb_current_command = "FB_LOCK" -> TRUE
                    [] OTHER -> lock_next
  /\ waiting_to_be_locked' = Away
  /\ fb_reply' = IF Dropped THEN fb_reply ELSE 1
  /\ Goto("fb", IF fb_current_command = "FB_QUIT" THEN "ended" ELSE "lock")
  /\ UNCHANGED <<is_frame_locked, fb_signal, pictureVars, callVars>>

HandleCommand ==
  /\ pc["fb"] = "handle"
  /\ fb_current_command' = IF Dropped THEN "FB_NONE" ELSE fb_current_command
  /\ lock_next' = CASE Dropped \/ fb_current_command = "FB_UNLOCK" -> FALSE
                    [] fb_current_command = "FB_LOCK" -> TRUE
                    [] OTHER -> lock_next
  /\ waiting_to_be_locked' = Away
  /\ fb_reply' = 1
  /\ Goto("fb", IF fb_current_command = "FB_QUIT" THEN "ended" ELSE "lock")
  /\ UNCHANGED <<is_frame_locked, fb_signal, pictureVars, callVars>>

FbThread ==
  \/ LockSurface \/ RestoreFrame \/ Ready \/ TakeCommand \/ UnlockSurface \/ HandleCommand

-----------------------------------------------------------------------------
(* fb_command(), by the window thread and by the CPU thread.               *)

\* A Win32 critical section lets its owner in again; it is free to the others
\* when nobody has it.  A thread that is terminated inside keeps it for ever.
Enters(t, owner) == owner \in {"none", t}

Runs(t) == t = "cpu" => cpu_state = "running"

\* The thread locks and restores the surface after its reply to FB_LOCK, with
\* the command in a variable that the next one overwrites.
Restoring == pc["fb"] \in {"lock", "restore"} /\ fb_current_command = "FB_LOCK"

\* EnterCriticalSection() and ReleaseSemaphore(fb_signal).
GiveCommand(t) ==
  /\ pc[t] = "enter" /\ Runs(t) /\ Enters(t, fb_csection)
  /\ fb_csection' = t
  /\ fb_current_command' = IF t = "cpu" THEN "FB_SETPALETTE" ELSE Head(todo)
  /\ fb_signal' = 1
  /\ behind' = IF Restoring THEN behind \union {"overtaken"} ELSE behind
  /\ Goto(t, "reply")
  /\ UNCHANGED <<fbVars, fb_reply, MacFrameBaseHost, latest, draw_csection, is_own_desktop,
                 todo, cpu_state>>

\* The reply of the thread; the callers also leave draw_csection.
GetReply(t) ==
  /\ pc[t] = "reply" /\ Runs(t) /\ fb_reply = 1
  /\ fb_reply' = 0
  /\ fb_csection' = "none"
  /\ draw_csection' = IF draw_csection = t THEN "none" ELSE draw_csection
  /\ todo' = IF t = "main" THEN Tail(todo) ELSE todo
  /\ Goto(t, IF t = "cpu" THEN "run"
             ELSE IF todo' # <<>> THEN "enter"
             ELSE IF cpu_state = "suspended" THEN "swapped"
             ELSE IF cpu_state = "terminated" THEN "stop"
             ELSE "run")
  /\ UNCHANGED <<fbVars, fb_current_command, fb_signal, pictureVars, is_own_desktop,
                 cpu_state>>

\* video_set_palette2() and update_palette() take draw_csection first.
GrabDrawMutex(t) ==
  /\ pc[t] = "draw" /\ Runs(t) /\ Enters(t, draw_csection)
  /\ draw_csection' = t
  /\ Goto(t, "enter")
  /\ UNCHANGED <<fbVars, fb_current_command, fb_signal, fb_reply, pictureVars, fb_csection,
                 is_own_desktop, todo, cpu_state>>

Call(t) == GiveCommand(t) \/ GetReply(t) \/ GrabDrawMutex(t)

-----------------------------------------------------------------------------
(* The window thread.                                                      *)

mainUnchanged ==
  UNCHANGED <<fbVars, fb_current_command, fb_signal, fb_reply, pictureVars, fb_csection,
              draw_csection>>

\* swap_desktop() suspends the CPU thread wherever it is.
swap_desktop ==
  /\ pc["main"] = "run"
  /\ cpu_state' = "suspended"
  /\ todo' = IF is_own_desktop THEN <<"FB_UNLOCK">> ELSE <<"FB_SETPALETTE", "FB_LOCK">>
  /\ Goto("main", "enter")
  /\ UNCHANGED is_own_desktop
  /\ mainUnchanged

Swapped ==
  /\ pc["main"] = "swapped"
  /\ is_own_desktop' = ~ is_own_desktop
  /\ cpu_state' = "running"
  /\ Goto("main", "run")
  /\ UNCHANGED todo
  /\ mainUnchanged

\* WM_PALETTECHANGED and WM_QUERYNEWPALETTE.
update_palette ==
  /\ pc["main"] = "run"
  /\ todo' = <<"FB_UPDATEPALETTE">>
  /\ Goto("main", "draw")
  /\ UNCHANGED <<is_own_desktop, cpu_state>>
  /\ mainUnchanged

\* QuitEmulator() terminates the CPU thread wherever it is, then VideoExit().
QuitEmulator ==
  /\ pc["main"] = "run"
  /\ cpu_state' = "terminated"
  /\ todo' = <<"FB_QUIT">>
  /\ Goto("main", "enter")
  /\ UNCHANGED is_own_desktop
  /\ mainUnchanged

\* stop_video_thread() takes draw_csection for a moment when the thread has ended.
stop_video_thread ==
  /\ pc["main"] = "stop" /\ Enters("main", draw_csection)
  /\ Goto("main", "done")
  /\ UNCHANGED <<is_own_desktop, todo, cpu_state>>
  /\ mainUnchanged

Main == swap_desktop \/ update_palette \/ QuitEmulator

-----------------------------------------------------------------------------
(* The CPU thread.                                                         *)

cpuUnchanged ==
  UNCHANGED <<fbVars, fb_current_command, fb_signal, fb_reply, MacFrameBaseHost, callVars>>

\* While the surface is unlocked for a palette the Mac draws in the_buffer, and
\* while it is restored on what is about to be overwritten.
Draw ==
  /\ pc["cpu"] = "run" /\ cpu_state = "running"
  /\ latest' = {MacFrameBaseHost}
  /\ behind' = IF MacFrameBaseHost = "surface"
               THEN IF Restoring THEN {"overwritten"} ELSE {}
               ELSE IF is_own_desktop /\ ~ Restoring THEN behind \union {"unlocked"} ELSE behind
  /\ UNCHANGED pc
  /\ cpuUnchanged

video_set_palette ==
  /\ CpuPalettes
  /\ pc["cpu"] = "run" /\ cpu_state = "running"
  /\ Goto("cpu", "draw")
  /\ UNCHANGED <<latest, behind>>
  /\ cpuUnchanged

Next ==
  \/ FbThread \/ Main \/ Swapped \/ stop_video_thread \/ Draw \/ video_set_palette
  \/ \E t \in Callers : Call(t)

Spec == Init /\ [][Next]_vars

\* The host schedules the threads, and each of them goes on with what it has begun.
FairSpec ==
  /\ Spec
  /\ WF_vars(FbThread) /\ WF_vars(Swapped \/ stop_video_thread)
  /\ \A t \in Callers : SF_vars(Call(t))

-----------------------------------------------------------------------------
Commands == {"FB_NONE", "FB_LOCK", "FB_UNLOCK", "FB_SETPALETTE", "FB_UPDATEPALETTE",
             "FB_QUIT"}

\* The type invariant.
TypeOK ==
  /\ {is_frame_locked, lock_next, waiting_to_be_locked, is_own_desktop} \subseteq BOOLEAN
  /\ fb_current_command \in Commands /\ todo \in Seq(Commands) /\ Len(todo) <= 2
  /\ fb_signal \in 0 .. 1 /\ fb_reply \in 0 .. 1
  /\ {fb_csection, draw_csection} \subseteq Callers \union {"none"}
  /\ MacFrameBaseHost \in Memories /\ latest \subseteq Memories
  /\ behind \subseteq {"refused", "overtaken", "overwritten", "unlocked"}
  /\ pc["fb"] \in {"lock", "restore", "ready", "wait", "unlock", "handle", "ended"}
  /\ pc["main"] \in {"run", "draw", "enter", "reply", "swapped", "stop", "done"}
  /\ pc["cpu"] \in {"run", "draw", "enter", "reply"}
  /\ cpu_state \in {"running", "suspended", "terminated"}

\* While another desktop is shown the Mac's picture is kept up to date in
\* the_buffer and the surface is not locked, unless the host refused to unlock it.
AwayFromScreen ==
  ~ is_own_desktop /\ pc["main"] = "run"
    => MacFrameBaseHost = "the_buffer" /\ (is_frame_locked => "refused" \in behind)

\* When the user is back and the surface is locked, what the Mac drew last is on
\* it, but for the four ways in which the code loses it: Lock() or Unlock() was
\* refused; the next command came before the surface was restored; the Mac drew
\* on it before that; or the Mac drew while it was unlocked for a palette.
ScreenIsCurrent ==
  is_own_desktop /\ is_frame_locked /\ pc["fb"] = "wait" /\ pc["main"] = "run" /\ behind = {}
    => "surface" \in latest

\* The CPU thread has been stopped with a lock that the window thread waits for:
\* suspended or terminated in fb_command(), or terminated in video_set_palette2().
CpuStoppedInside ==
  \/ cpu_state # "running" /\ fb_csection = "cpu"
  \/ cpu_state = "terminated" /\ draw_csection = "cpu"

\* The window thread gets back to its messages, and to the end of the program,
\* unless it has stopped the CPU thread with a lock that it needs itself.
WindowThreadReturns ==
  (pc["main"] # "run" /\ ~ CpuStoppedInside)
    ~> (pc["main"] \in {"run", "done"} \/ CpuStoppedInside)
=============================================================================
